---- MODULE Spec2Model ----
(***************************************************************************)
(* Model of the calorie tracker's food-resolution and entry-quantity logic *)
(* (src/src/main.ts).                                                      *)
(*                                                                         *)
(* Numbers.  Every decimal the program handles at rest has at most two     *)
(* fraction digits, so a number is modelled as an integer count of         *)
(* hundredths ("centi": 4500 is 45.00).  NoNum stands for undefined, null  *)
(* and NaN (every value Number.isFinite rejects).  The entry form's        *)
(* `servings` is a quotient grams / servingSizeGrams and is modelled as an *)
(* exact fraction [num, den] in lowest terms.  Math.round is round half up.*)
(* Binary floating-point error is not modelled.                            *)
(*                                                                         *)
(* Text.  Unit spellings are strings with trim() and toLowerCase() given   *)
(* as tables over the spellings of UnitSpellings; serving labels are       *)
(* sequences of one-character strings, scanned as the regular expression   *)
(* of parseServingSize scans them.                                         *)
(***************************************************************************)
EXTENDS Integers, Sequences, FiniteSets, TLC

NoNum == -1
NoUnit == "<undefined>"
NoLabel == <<"<undefined>">>
Null == [null |-> TRUE]

PER_100G_UNIT == "per100g"

\* ------------------------------------------------------------------ numbers

RECURSIVE GCD(_, _)
GCD(a, b) == IF b = 0 THEN a ELSE GCD(b, a % b)

\* the fraction n/d (d > 0, n >= 0) in lowest terms
Frac(n, d) ==
  LET g == GCD(n, d) IN
  IF n = 0 THEN [num |-> 0, den |-> 1] ELSE [num |-> n \div g, den |-> d \div g]

\* a number of hundredths as a fraction
OfCenti(c) == Frac(c, 100)

\* Math.round(q * 100) / 100 for a fraction q, in hundredths
roundTo2(q) == (200 * q.num + q.den) \div (2 * q.den)

\* Math.round(q * 10) / 10 for a fraction q, in hundredths
roundTo1(q) == 10 * ((20 * q.num + q.den) \div (2 * q.den))

\* Math.round(q) for a fraction q, in hundredths
MathRound(q) == 100 * ((2 * q.num + q.den) \div (2 * q.den))

\* a * b for a fraction a and a number of hundredths b, as a fraction
TimesCenti(q, c) == Frac(q.num * c, q.den * 100)

\* ------------------------------------------------------------------ text

Digits == <<"0", "1", "2", "3", "4", "5", "6", "7", "8", "9">>

IsDigit(c) == \E i \in 1..10 : Digits[i] = c

DigitVal(c) == (CHOOSE i \in 1..10 : Digits[i] = c) - 1

IsSpace(c) == c = " "

Letters == {"a", "A", "c", "g", "G", "l", "L", "m", "M", "o", "O", "p", "r", "s", "t", "u"}

\* \w of the regular expression: letters, digits and the underscore
IsWord(c) == c \in Letters \/ IsDigit(c) \/ c = "_"

LowerChar(c) ==
  CASE c = "G" -> "g"
    [] c = "A" -> "a"
    [] c = "O" -> "o"
    [] c = "L" -> "l"
    [] c = "M" -> "m"
    [] OTHER -> c

RECURSIVE IntDigits(_)
IntDigits(n) ==
  IF n < 10 THEN <<Digits[n + 1]>> ELSE IntDigits(n \div 10) \o <<Digits[(n % 10) + 1]>>

\* formatNumberSmart that shows one decimal, the second cut off
formatNumberSmart_oneDecimal(c) ==
  IntDigits(c \div 100) \o
    (IF (c % 100) \div 10 = 0 THEN <<>> ELSE <<".", Digits[((c % 100) \div 10) + 1]>>)

\* formatNumberSmart of a number of hundredths: toFixed(2) with the trailing
\* zeros, and a then-dangling point, removed
formatNumberSmart(c) ==
  LET w == c \div 100
      f == c % 100
  IN IntDigits(w) \o
     (IF f = 0 THEN <<>>
      ELSE IF f % 10 = 0 THEN <<".", Digits[(f \div 10) + 1]>>
      ELSE <<".", Digits[(f \div 10) + 1], Digits[(f % 10) + 1]>>)

UnitSpellings ==
  {"g", "G", " g ", "gram", "Grams", "ml", " ML", "milliliters", "Millilitre",
   "per100g", " PER100G ", "oz", ""}

\* String.prototype.trim on the spellings above
Trim(u) ==
  CASE u = " g " -> "g"
    [] u = " ML" -> "ML"
    [] u = " PER100G " -> "PER100G"
    [] OTHER -> u

\* String.prototype.toLowerCase on the spellings above, trimmed or not
ToLower(u) ==
  CASE u = "G" -> "g"
    [] u = "Grams" -> "grams"
    [] u = " ML" -> " ml"
    [] u = "ML" -> "ml"
    [] u = "Millilitre" -> "millilitre"
    [] u = " PER100G " -> " per100g "
    [] u = "PER100G" -> "per100g"
    [] OTHER -> u

\* ------------------------------------------------------------------ serving anchor

UnitChars(unit) == IF unit = "ml" THEN <<"m", "l">> ELSE <<"g">>

AnchorLabel(amount, unit) == formatNumberSmart(amount) \o <<" ">> \o UnitChars(unit)

Anchor(amount, unit) == [amount |-> amount, unit |-> unit, label |-> AnchorLabel(amount, unit)]

\* index after the longest run of digits (of spaces) of s that starts at i
RECURSIVE DigitsEnd(_, _)
DigitsEnd(s, i) == IF i <= Len(s) /\ IsDigit(s[i]) THEN DigitsEnd(s, i + 1) ELSE i

RECURSIVE SpacesEnd(_, _)
SpacesEnd(s, i) == IF i <= Len(s) /\ IsSpace(s[i]) THEN SpacesEnd(s, i + 1) ELSE i

RECURSIVE DigitsValue(_, _, _)
DigitsValue(s, i, j) ==
  IF j <= i THEN 0 ELSE 10 * DigitsValue(s, i, j - 1) + DigitVal(s[j - 1])

\* \b after a unit that ends before index p
BoundaryAt(s, p) == p > Len(s) \/ ~IsWord(s[p])

\* \s*(g|ml)\b from index p: the unit matched, or Null
UnitAt(s, p) ==
  LET q == SpacesEnd(s, p) IN
  IF q <= Len(s) /\ LowerChar(s[q]) = "g" /\ BoundaryAt(s, q + 1) THEN [unit |-> "g"]
  ELSE IF q + 1 <= Len(s) /\ LowerChar(s[q]) = "m" /\ LowerChar(s[q + 1]) = "l"
          /\ BoundaryAt(s, q + 2) THEN [unit |-> "ml"]
  ELSE Null

\* the fraction digits s[i..j-1] as hundredths (Number of "0.<digits>")
FracCenti(s, i, j) ==
  IF j - i = 1 THEN 10 * DigitVal(s[i]) ELSE 10 * DigitVal(s[i]) + DigitVal(s[i + 1])

\* (?:[.,]\d+)? from index j: the index after the fraction, j without one
FracEnd(s, j) ==
  IF j + 1 <= Len(s) /\ s[j] \in {".", ","} /\ IsDigit(s[j + 1])
    THEN DigitsEnd(s, j + 1) ELSE j

\* a match of (\d+(?:[.,]\d+)?)\s*(g|ml)\b that starts at index i, or Null:
\* the digits s[i..j-1] with the fraction that ends before k, else without it
MatchAt(s, i) ==
  IF ~IsDigit(s[i]) THEN Null
  ELSE
    LET Match(j, k, withFrac, plain) ==
          IF k > j /\ withFrac # Null
            THEN [amount |-> 100 * DigitsValue(s, i, j) + FracCenti(s, j + 1, k),
                  unit |-> withFrac.unit]
          ELSE IF plain # Null
            THEN [amount |-> 100 * DigitsValue(s, i, j), unit |-> plain.unit]
          ELSE Null
        From(j) == Match(j, FracEnd(s, j), UnitAt(s, FracEnd(s, j)), UnitAt(s, j))
    IN From(DigitsEnd(s, i))

\* String.prototype.match: the leftmost match
RECURSIVE FirstMatch(_, _)
FirstMatch(s, i) ==
  IF i > Len(s) THEN Null
  ELSE LET Found(match) == IF match # Null THEN match ELSE FirstMatch(s, i + 1)
       IN Found(MatchAt(s, i))

parseServingSize(value) ==
  LET Parsed(match) ==
        IF match = Null THEN Null
        ELSE IF match.amount <= 0 THEN Null
        ELSE Anchor(match.amount, match.unit)
  IN Parsed(FirstMatch(value, 1))

isPer100gUnit(unit) == unit # NoUnit /\ ToLower(Trim(unit)) = PER_100G_UNIT

normalizeServingUnit(unit) ==
  IF unit = NoUnit \/ unit = "" THEN Null
  ELSE
    LET normalized == ToLower(Trim(unit)) IN
    IF normalized = PER_100G_UNIT THEN Null
    ELSE IF normalized \in {"g", "gram", "grams"} THEN [unit |-> "g"]
    ELSE IF normalized \in {"ml", "milliliter", "milliliters", "millilitre", "millilitres"}
      THEN [unit |-> "ml"]
    ELSE Null

buildServingAnchor(amount, unit) ==
  IF amount = NoNum \/ amount <= 0 THEN Null
  ELSE
    LET normalizedUnit == normalizeServingUnit(unit) IN
    IF normalizedUnit = Null THEN Null ELSE Anchor(amount, normalizedUnit.unit)

\* resolveServingAnchor with the servingSize/servingSizeUnit pair tried before
\* servingSizeGrams
resolveServingAnchor_sizeFirst(options) ==
  IF isPer100gUnit(options.servingSizeUnit) THEN Null
  ELSE IF buildServingAnchor(options.servingSize, options.servingSizeUnit) # Null
    THEN buildServingAnchor(options.servingSize, options.servingSizeUnit)
  ELSE IF options.servingSizeGrams # NoNum /\ options.servingSizeGrams > 0
    THEN Anchor(options.servingSizeGrams, "g")
  ELSE IF options.servingLabel # NoLabel /\ options.servingLabel # <<>>
    THEN parseServingSize(options.servingLabel)
  ELSE Null

resolveServingAnchor(options) ==
  IF isPer100gUnit(options.servingSizeUnit) THEN Null
  ELSE IF options.servingSizeGrams # NoNum /\ options.servingSizeGrams > 0
    THEN Anchor(options.servingSizeGrams, "g")
  ELSE
    LET FirstOf(fromSizedUnit, parsed) == IF fromSizedUnit # Null THEN fromSizedUnit ELSE parsed
    IN FirstOf(buildServingAnchor(options.servingSize, options.servingSizeUnit),
               IF options.servingLabel # NoLabel /\ options.servingLabel # <<>>
                 THEN parseServingSize(options.servingLabel) ELSE Null)

\* the serving fields of a food, as the option bag the callers build (no label)
FoodServingOptions(food) ==
  [servingSizeGrams |-> food.servingSizeGrams, servingSize |-> food.servingSize,
   servingSizeUnit |-> food.servingSizeUnit, servingLabel |-> NoLabel]

getNutritionBasisLabel(anchor) ==
  IF anchor # Null THEN [per |-> "serving", label |-> anchor.label]
  ELSE [per |-> "100 g", label |-> <<>>]

getFoodBasis(food) ==
  LET Basis(anchor) == [anchor |-> anchor, label |-> getNutritionBasisLabel(anchor)]
  IN Basis(resolveServingAnchor(FoodServingOptions(food)))

\* hasTrueServing that looks at servingSizeGrams only
hasTrueServing_gramsOnly(food) ==
  IF food = Null THEN FALSE
  ELSE IF isPer100gUnit(food.servingSizeUnit) THEN FALSE
  ELSE food.servingSizeGrams # NoNum /\ food.servingSizeGrams > 0

\* food = Null is the undefined argument
hasTrueServing(food) ==
  IF food = Null THEN FALSE
  ELSE IF isPer100gUnit(food.servingSizeUnit) THEN FALSE
  ELSE resolveServingAnchor(FoodServingOptions(food)) # Null

\* getServingSizeGramsValue that prefers the stored servingSizeGrams to the
\* 100 of the per-100g basis
getServingSizeGramsValue_storedFirst(food) ==
  IF food = Null THEN NoNum
  ELSE IF food.servingSizeGrams # NoNum /\ food.servingSizeGrams > 0 THEN food.servingSizeGrams
  ELSE IF isPer100gUnit(food.servingSizeUnit) THEN 10000
  ELSE IF food.servingSizeUnit # NoUnit /\ ToLower(food.servingSizeUnit) = "g"
          /\ food.servingSize # NoNum /\ food.servingSize > 0 THEN food.servingSize
  ELSE NoNum

getServingSizeGramsValue(food) ==
  IF food = Null THEN NoNum
  ELSE IF isPer100gUnit(food.servingSizeUnit) THEN 10000
  ELSE IF food.servingSizeGrams # NoNum /\ food.servingSizeGrams > 0 THEN food.servingSizeGrams
  ELSE IF food.servingSizeUnit # NoUnit /\ ToLower(food.servingSizeUnit) = "g"
          /\ food.servingSize # NoNum /\ food.servingSize > 0 THEN food.servingSize
  ELSE NoNum

getEntryMacroBasisLabel(food) ==
  IF food = Null THEN [per |-> "100 g", label |-> <<>>]
  ELSE IF ~hasTrueServing(food) THEN [per |-> "100 g", label |-> <<>>]
  ELSE getFoodBasis(food).label

\* ------------------------------------------------------------------ USDA draft

getUsdaServingGrams(result) ==
  IF result.servingSize = NoNum THEN NoNum
  ELSE IF normalizeServingUnit(result.servingSizeUnit) # [unit |-> "g"] THEN NoNum
  ELSE result.servingSize

\* raw * servingFactor, raw in hundredths, servingFactor = amount / 100
Scaled(raw, anchor) ==
  IF anchor # Null THEN Frac(raw * anchor.amount, 1000000) ELSE Frac(raw, 100)

\* createUsdaDraftFromResult that rounds carbs and protein to two decimals
createUsdaDraftFromResult_twoDecimals(result) ==
  LET Draft(anchor) ==
        [name |-> result.description,
         caloriesPerServing |->
           IF result.calories = NoNum THEN 0 ELSE MathRound(Scaled(result.calories, anchor)),
         carbsPerServing |->
           IF result.carbs = NoNum THEN 0 ELSE roundTo2(Scaled(result.carbs, anchor)),
         proteinPerServing |->
           IF result.protein = NoNum THEN 0 ELSE roundTo2(Scaled(result.protein, anchor)),
         servingLabel |-> IF anchor # Null THEN anchor.label ELSE NoLabel,
         servingSize |-> IF anchor # Null THEN anchor.amount ELSE 10000,
         servingSizeUnit |-> IF anchor # Null THEN "g" ELSE PER_100G_UNIT,
         servingSizeGrams |-> IF anchor # Null THEN anchor.amount ELSE 10000]
  IN Draft(resolveServingAnchor(
       [servingSizeGrams |-> NoNum, servingSize |-> result.servingSize,
        servingSizeUnit |-> result.servingSizeUnit, servingLabel |-> NoLabel]))

createUsdaDraftFromResult(result) ==
  LET Draft(anchor) ==
        [name |-> result.description,
         caloriesPerServing |->
           IF result.calories = NoNum THEN 0 ELSE MathRound(Scaled(result.calories, anchor)),
         carbsPerServing |->
           IF result.carbs = NoNum THEN 0 ELSE roundTo1(Scaled(result.carbs, anchor)),
         proteinPerServing |->
           IF result.protein = NoNum THEN 0 ELSE roundTo1(Scaled(result.protein, anchor)),
         servingLabel |-> IF anchor # Null THEN anchor.label ELSE NoLabel,
         servingSize |-> IF anchor # Null THEN anchor.amount ELSE 10000,
         servingSizeUnit |-> IF anchor # Null THEN "g" ELSE PER_100G_UNIT,
         servingSizeGrams |-> IF anchor # Null THEN anchor.amount ELSE 10000]
  IN Draft(resolveServingAnchor(
       [servingSizeGrams |-> NoNum, servingSize |-> result.servingSize,
        servingSizeUnit |-> result.servingSizeUnit, servingLabel |-> NoLabel]))

\* ------------------------------------------------------------------ decimal input

RECURSIVE Sanitize(_)
\* raw.replace(/[^0-9.]/g, '')
Sanitize(raw) ==
  IF raw = <<>> THEN <<>>
  ELSE IF IsDigit(Head(raw)) \/ Head(raw) = "." THEN <<Head(raw)>> \o Sanitize(Tail(raw))
  ELSE Sanitize(Tail(raw))

RECURSIVE DotIndex(_, _)
\* index of the first "." of s at or after i, Len(s) + 1 when there is none
DotIndex(s, i) == IF i > Len(s) \/ s[i] = "." THEN i ELSE DotIndex(s, i + 1)

RECURSIVE DropDots_untilDot(_)
\* the digits after the first point up to the next point only
DropDots_untilDot(s) ==
  IF s = <<>> \/ Head(s) = "." THEN <<>>
  ELSE <<Head(s)>> \o DropDots_untilDot(Tail(s))

RECURSIVE DropDots(_)
\* parts.slice(1).join('')
DropDots(s) ==
  IF s = <<>> THEN <<>>
  ELSE IF Head(s) = "." THEN DropDots(Tail(s))
  ELSE <<Head(s)>> \o DropDots(Tail(s))

\* Number(normalized) for the sanitized text, in hundredths
SanitizedValue(sanitized) ==
  LET dot == DotIndex(sanitized, 1)
      whole == SubSeq(sanitized, 1, dot - 1)
      decimals == DropDots(SubSeq(sanitized, dot + 1, Len(sanitized)))
      kept == SubSeq(decimals, 1, IF Len(decimals) < 2 THEN Len(decimals) ELSE 2)
  IN 100 * DigitsValue(whole, 1, Len(whole) + 1)
     + (IF kept = <<>> THEN 0 ELSE FracCenti(kept, 1, Len(kept) + 1))

Max(a, b) == IF a >= b THEN a ELSE b

\* parseDecimal2Fine without the floor
parseDecimal2Fine_noFloor(raw, min) == 10 * SanitizedValue(Sanitize(raw))

\* parseDecimal2 and parseDecimalNullable with the floor and the result in
\* thousandths: the value read has two decimals, a floor may have more
parseDecimal2Fine(raw, min) == Max(min, 10 * SanitizedValue(Sanitize(raw)))

parseDecimalNullableFine(raw, min) ==
  IF Sanitize(raw) = <<>> THEN NoNum ELSE Max(min, 10 * SanitizedValue(Sanitize(raw)))

parseDecimal2(raw, min) == Max(min, SanitizedValue(Sanitize(raw)))

parseDecimalNullable(raw, min) ==
  IF Sanitize(raw) = <<>> THEN NoNum ELSE Max(min, SanitizedValue(Sanitize(raw)))

\* ------------------------------------------------------------------ names

RECURSIVE LowerSeq(_)
LowerSeq(s) == IF s = <<>> THEN <<>> ELSE <<LowerChar(Head(s))>> \o LowerSeq(Tail(s))

RECURSIVE TrimLeft(_)
TrimLeft(s) == IF s # <<>> /\ IsSpace(Head(s)) THEN TrimLeft(Tail(s)) ELSE s

RECURSIVE TrimRight(_)
TrimRight(s) ==
  IF s # <<>> /\ IsSpace(s[Len(s)]) THEN TrimRight(SubSeq(s, 1, Len(s) - 1)) ELSE s

TrimSeq(s) == TrimRight(TrimLeft(s))

\* String.prototype.includes
Includes(s, sub) ==
  \E i \in 1..(Len(s) + 1) : i + Len(sub) - 1 <= Len(s) /\ SubSeq(s, i, i + Len(sub) - 1) = sub

\* ------------------------------------------------------------------ bounds and inputs

\* the longest text typed into a decimal field, of the characters of RawChars
MaxRawLen == 4

\* the events a behaviour may hold that type into the entry form or write a
\* food or an entry; navigation is not counted, nor is the deletion of a food
\* that a stored entry names
MaxEvents == 2

NoId == 0

Food(id, name, cal, carbs, protein, fav, size, unit, grams) ==
  [id |-> id, name |-> name, caloriesPerServing |-> cal, carbsPerServing |-> carbs,
   proteinPerServing |-> protein, favorite |-> fav, servingSize |-> size,
   servingSizeUnit |-> unit, servingSizeGrams |-> grams]

\* food documents a user's collection can hold: a 45 g serving, the 100 g
\* basis, a serving given by size and unit only, a 240 ml serving, the 100 g
\* basis with a stale gram value, a document without serving fields
Apple == Food(1, <<"a", "p">>, 5200, 1400, 30, TRUE, 4500, "g", 4500)
Oats == Food(2, <<"o", "a", "t">>, 38000, 6700, 1300, TRUE, 10000, "per100g", 10000)
Tahini == Food(3, <<"t", "a">>, 100, 0, 0, TRUE, 3000, "G", NoNum)
Gout == Food(4, <<"g", "o">>, 4000, 500, 100, FALSE, 24000, "ml", NoNum)
Roti == Food(5, <<"r", "o">>, 13000, 2800, 270, FALSE, 4500, " PER100G ", 4500)
Soup == Food(6, <<"s", "o">>, 6000, 900, 200, FALSE, NoNum, NoUnit, NoNum)

\* the collections the model starts from, each in name order (getUserFoods)
SeedCatalogs == { <<Apple, Oats, Soup>>, <<Gout, Roti, Tahini>> }

FirstNewId == 7

\* what the user types in the food search box
SearchTexts == { <<" ">>, <<"O">>, <<"m", "u", " ">> }

\* what the user types in the servings, grams and macro fields
ServingsTexts == { <<"1", ".", "2", "5">>, <<"0">> }
GramsTexts == { <<"1", "6", "2", ".", "5">>, <<"0", ".", "3">> }
MacroTexts == { <<"9", "9">> }
FoodGramsTexts == { <<"3", "0">> }
NewFoodName == <<"m", "u">>
NewFoodMacros == [calories |-> 12000, carbs |-> 1550, protein |-> 330]

\* ------------------------------------------------------------------ state

VARIABLES
  foodCache,      \* state.foodCache, the user's foods
  events,         \* how many typing and writing events have been handled
  entries,        \* the day's entry documents, in createdAt order
  nextId,         \* the next document id the store hands out
  view,           \* the screen shown: "dashboard", "foods", "entry", "food"
  form,           \* the entry form's variables (renderEntryForm's locals)
  prefillFoodId,  \* state.prefillFoodId
  foodForm,       \* the food form's arguments: foodId, returnDate, prefillName
  dashboard,      \* the dashboard as last rendered: row totals and the daily sum
  alertMsg,       \* the message of the alert() of the last event, or "none"
  submitted,      \* history: what the last accepted submit was given, or Null
  probe,          \* the argument of the pure function under test
  probeOut        \* its result

vars ==
  <<foodCache, events, entries, nextId, view, form, prefillFoodId, foodForm, dashboard,
    alertMsg, submitted, probe, probeOut>>

Zero == [num |-> 0, den |-> 1]

Truthy(n) == n # NoNum /\ n # 0

\* Array.prototype.find: the index of the first element whose test, given as
\* the sequence of the tests' results, is true; 0 if none
FindIndex(hits) ==
  IF \E i \in 1..Len(hits) : hits[i]
    THEN CHOOSE i \in 1..Len(hits) : hits[i] /\ \A j \in 1..(i - 1) : ~hits[j]
    ELSE 0

\* Array.prototype.find on the foods: the element found, or Null
FindFood(foods, hits) == IF FindIndex(hits) = 0 THEN Null ELSE foods[FindIndex(hits)]

\* ------------------------------------------------------------------ Open Food Facts draft
\* A product is the JSON of data.product: serving_size is a label or NoLabel,
\* serving_quantity a number or NoNum, serving_unit a spelling or NoUnit, and
\* each nutriment a number (of hundredths) or NoNum when the field is absent.

\* resolveOffServing that takes the serving_quantity with any serving_unit
resolveOffServing_anyUnit(product) ==
  LET Parsed(parsed) ==
        IF parsed # Null THEN parsed
        ELSE IF /\ Truthy(product.serving_quantity)
                /\ product.serving_unit # NoUnit
                /\ product.serving_quantity > 0
          THEN Anchor(product.serving_quantity, ToLower(product.serving_unit))
        ELSE Null
  IN Parsed(IF product.serving_size # NoLabel THEN parseServingSize(product.serving_size)
            ELSE Null)

resolveOffServing(product) ==
  LET Parsed(parsed) ==
        IF parsed # Null THEN parsed
        ELSE IF /\ Truthy(product.serving_quantity)
                /\ product.serving_unit # NoUnit
                /\ ToLower(product.serving_unit) \in {"g", "ml"}
                /\ product.serving_quantity > 0
          THEN Anchor(product.serving_quantity, ToLower(product.serving_unit))
        ELSE Null
  IN Parsed(IF product.serving_size # NoLabel THEN parseServingSize(product.serving_size)
            ELSE Null)

\* the body of lookupOpenFoodFacts once the response is read: the draft, or
\* Null.  data is [status, product]; a macro is a fraction or Null.
lookupOpenFoodFacts(data) ==
  LET kjToKcal(value) == IF value = NoNum THEN Null ELSE Frac(value * 10, 4184)
      asKcal(kcal, kj) == IF kcal # NoNum THEN OfCenti(kcal) ELSE kjToKcal(kj)
      Times(q, amount) == Frac(q.num * amount, q.den * 10000)
      Macro(perServing, per100g, amount) ==
        IF perServing # Null THEN perServing
        ELSE IF per100g # Null THEN Times(per100g, amount)
        ELSE Null
      Plain(value) == IF value = NoNum THEN Null ELSE OfCenti(value)
      AtLeastZero(q) == IF q.num < 0 THEN Zero ELSE q
      Draft(name, serving, calories, protein, carbs) ==
        IF calories = Null \/ protein = Null \/ carbs = Null THEN Null
        ELSE [name |-> name,
              caloriesPerServing |-> Max(0, MathRound(calories)),
              carbsPerServing |-> roundTo1(AtLeastZero(carbs)),
              proteinPerServing |-> roundTo1(AtLeastZero(protein)),
              servingLabel |-> serving.label,
              servingSize |-> serving.amount,
              servingSizeUnit |-> serving.unit,
              servingSizeGrams |-> IF serving.unit = "g" THEN serving.amount ELSE NoNum]
      Built(product, n, serving) ==
        IF serving = Null THEN Null
        ELSE Draft(product.product_name, serving,
                   Macro(asKcal(n.energy_kcal_serving, n.energy_kj_serving),
                         asKcal(n.energy_kcal_100g, n.energy_kj_100g), serving.amount),
                   Macro(Plain(n.proteins_serving), Plain(n.proteins_100g), serving.amount),
                   Macro(Plain(n.carbohydrates_serving), Plain(n.carbohydrates_100g),
                         serving.amount))
      Found(product) == Built(product, product.nutriments, resolveOffServing(product))
  IN IF data.status # 1 \/ data.product = Null THEN Null ELSE Found(data.product)

\* createDraftFromFood that stores the resolved anchor as the draft's serving
createDraftFromFood_anchored(saved) ==
  LET Draft(anchor) ==
        [name |-> saved.name,
         caloriesPerServing |-> saved.caloriesPerServing,
         carbsPerServing |-> saved.carbsPerServing,
         proteinPerServing |-> saved.proteinPerServing,
         servingLabel |-> IF anchor # Null THEN anchor.label ELSE NoLabel,
         servingSize |-> IF anchor # Null THEN anchor.amount ELSE saved.servingSize,
         servingSizeUnit |-> IF anchor # Null THEN anchor.unit ELSE saved.servingSizeUnit,
         servingSizeGrams |-> IF anchor # Null THEN anchor.amount ELSE saved.servingSizeGrams]
  IN Draft(resolveServingAnchor(FoodServingOptions(saved)))

\* createDraftFromFood of the food form: the draft of a saved food
createDraftFromFood(saved) ==
  LET Draft(anchor) ==
        [name |-> saved.name,
         caloriesPerServing |-> saved.caloriesPerServing,
         carbsPerServing |-> saved.carbsPerServing,
         proteinPerServing |-> saved.proteinPerServing,
         servingLabel |-> IF anchor # Null THEN anchor.label ELSE NoLabel,
         servingSize |-> saved.servingSize,
         servingSizeUnit |-> saved.servingSizeUnit,
         servingSizeGrams |-> saved.servingSizeGrams]
  IN Draft(resolveServingAnchor(FoodServingOptions(saved)))

\* the basis line of the add-food summary card
getSummaryBasisLabel(draft) ==
  IF ~Truthy(draft.servingSizeGrams) \/ draft.servingSizeGrams <= 0
    THEN [per |-> "100 g", label |-> <<>>]
  ELSE IF isPer100gUnit(draft.servingSizeUnit) THEN [per |-> "100 g", label |-> <<>>]
  ELSE [per |-> "serving", label |-> formatNumberSmart(draft.servingSizeGrams) \o <<" ", "g">>]

\* ------------------------------------------------------------------ dashboard

RowTotals(entry) ==
  [calories |-> TimesCenti(OfCenti(entry.servings), entry.caloriesPerServing),
   carbs |-> TimesCenti(OfCenti(entry.servings), entry.carbsPerServing),
   protein |-> TimesCenti(OfCenti(entry.servings), entry.proteinPerServing)]

Plus(a, b) == Frac(a.num * b.den + b.num * a.den, a.den * b.den)

RECURSIVE sumEntries(_)
sumEntries(list) ==
  IF list = <<>> THEN [calories |-> Zero, carbs |-> Zero, protein |-> Zero]
  ELSE
    LET acc == sumEntries(SubSeq(list, 1, Len(list) - 1))
        entry == list[Len(list)]
    IN [calories |-> Plus(acc.calories, TimesCenti(OfCenti(entry.servings), entry.caloriesPerServing)),
        carbs |-> Plus(acc.carbs, TimesCenti(OfCenti(entry.servings), entry.carbsPerServing)),
        protein |-> Plus(acc.protein, TimesCenti(OfCenti(entry.servings), entry.proteinPerServing))]

renderDashboard(list) ==
  [rows |-> [i \in 1..Len(list) |-> RowTotals(list[i])], totals |-> sumEntries(list)]

NoDashboard == [rows |-> <<>>, totals |-> [calories |-> Zero, carbs |-> Zero, protein |-> Zero]]

\* ------------------------------------------------------------------ entry form
\* The form record holds renderEntryForm's local variables and `totals`, the
\* content of the #entry-totals panel.  servingsEntered is a history field:
\* the servings the form opened with or, later, the servings last typed into
\* the servings field.  The macro fields are taken to be reachable whenever a
\* food is locked (the "Edit macros" toggle only hides them).

updateTotals(f) ==
  [f EXCEPT !.totals =
     [calories |-> TimesCenti(f.servings, f.perServing.calories),
      carbs |-> TimesCenti(f.servings, f.perServing.carbs),
      protein |-> TimesCenti(f.servings, f.perServing.protein)]]

\* updateEntryInputMode that does not ask whether the food has a true serving
updateEntryInputMode_anyBasis(f, food) ==
  LET Mode(grams, useGrams) ==
        updateTotals(
          [f EXCEPT !.servingSizeGrams = grams, !.useGramsInput = useGrams,
                    !.servings =
                      IF useGrams
                        THEN (IF Truthy(grams) /\ Truthy(f.grams)
                                THEN Frac(f.grams, grams) ELSE Zero)
                        ELSE @])
  IN Mode(getServingSizeGramsValue(food),
          food # Null /\ Truthy(getServingSizeGramsValue(food)))

\* updateEntryInputMode that does not ask whether a gram value exists
updateEntryInputMode_noConstant(f, food) ==
  LET Mode(grams, useGrams) ==
        updateTotals(
          [f EXCEPT !.servingSizeGrams = grams, !.useGramsInput = useGrams,
                    !.servings =
                      IF useGrams
                        THEN (IF Truthy(grams) /\ Truthy(f.grams)
                                THEN Frac(f.grams, grams) ELSE Zero)
                        ELSE @])
  IN Mode(getServingSizeGramsValue(food), food # Null /\ ~hasTrueServing(food))

updateEntryInputMode(f, food) ==
  LET Mode(grams, useGrams) ==
        updateTotals(
          [f EXCEPT !.servingSizeGrams = grams, !.useGramsInput = useGrams,
                    !.servings =
                      IF useGrams
                        THEN (IF Truthy(grams) /\ Truthy(f.grams)
                                THEN Frac(f.grams, grams) ELSE Zero)
                        ELSE @])
  IN Mode(getServingSizeGramsValue(food),
          food # Null /\ ~hasTrueServing(food) /\ Truthy(getServingSizeGramsValue(food)))

setFoodSelectionState(f, locked) == [f EXCEPT !.foodLocked = locked]

PerServingOf(x) ==
  [calories |-> x.caloriesPerServing, carbs |-> x.carbsPerServing, protein |-> x.proteinPerServing]

BlankForm ==
  [entryId |-> NoId, selectedFood |-> Null, servings |-> OfCenti(100), grams |-> NoNum,
   servingSizeGrams |-> NoNum, useGramsInput |-> FALSE,
   perServing |-> [calories |-> 0, carbs |-> 0, protein |-> 0],
   typedName |-> <<>>, foodLocked |-> FALSE,
   totals |-> [calories |-> Zero, carbs |-> Zero, protein |-> Zero],
   servingsEntered |-> OfCenti(100)]

\* the prefill block of renderEntryForm
Prefilled(f, foods, prefillId) ==
  LET With(prefill) ==
        IF prefillId = NoId \/ prefill = Null THEN f
        ELSE [f EXCEPT !.selectedFood = prefill, !.typedName = prefill.name,
                       !.perServing = PerServingOf(prefill),
                       !.servingSizeGrams = getServingSizeGramsValue(prefill),
                       !.useGramsInput = ~hasTrueServing(prefill)
                                          /\ Truthy(getServingSizeGramsValue(prefill)),
                       !.grams = NoNum]
  IN With(FindFood(foods, [i \in 1..Len(foods) |-> foods[i].id = prefillId]))

\* the edit-load block taking the per-serving values from the food of the
\* entry's name when there is one
EditLoaded_fromFood(f, foods, list, entryId) ==
  LET Loaded(data, found, grams, useGrams) ==
        [f EXCEPT !.typedName = data.foodName, !.servings = OfCenti(data.servings),
                  !.servingsEntered = OfCenti(data.servings),
                  !.perServing = IF found # Null THEN PerServingOf(found)
                                 ELSE PerServingOf(data),
                  !.selectedFood = found,
                  !.servingSizeGrams = grams, !.useGramsInput = useGrams,
                  !.grams = IF useGrams /\ Truthy(grams)
                              THEN roundTo2(TimesCenti(OfCenti(data.servings), grams))
                              ELSE f.grams]
      WithFood(data, found) ==
        Loaded(data, found, getServingSizeGramsValue(found),
               ~hasTrueServing(found) /\ Truthy(getServingSizeGramsValue(found)))
      WithData(data) ==
        WithFood(data, FindFood(foods, [i \in 1..Len(foods) |-> foods[i].name = data.foodName]))
      At(at) == IF entryId = NoId \/ at = 0 THEN f ELSE WithData(list[at])
  IN At(FindIndex([i \in 1..Len(list) |-> list[i].id = entryId]))

\* the edit-load block that takes the per-serving values of the entry only
\* when a food of the entry's name is found
EditLoaded_needsFood(f, foods, list, entryId) ==
  LET Loaded(data, found, grams, useGrams) ==
        [f EXCEPT !.typedName = data.foodName, !.servings = OfCenti(data.servings),
                  !.servingsEntered = OfCenti(data.servings),
                  !.perServing = IF found # Null THEN PerServingOf(data) ELSE f.perServing,
                  !.selectedFood = found,
                  !.servingSizeGrams = grams, !.useGramsInput = useGrams,
                  !.grams = IF useGrams /\ Truthy(grams)
                              THEN roundTo2(TimesCenti(OfCenti(data.servings), grams))
                              ELSE f.grams]
      WithFood(data, found) ==
        Loaded(data, found, getServingSizeGramsValue(found),
               ~hasTrueServing(found) /\ Truthy(getServingSizeGramsValue(found)))
      WithData(data) ==
        WithFood(data, FindFood(foods, [i \in 1..Len(foods) |-> foods[i].name = data.foodName]))
      At(at) == IF entryId = NoId \/ at = 0 THEN f ELSE WithData(list[at])
  IN At(FindIndex([i \in 1..Len(list) |-> list[i].id = entryId]))

\* the edit-load block of renderEntryForm
EditLoaded(f, foods, list, entryId) ==
  LET Loaded(data, found, grams, useGrams) ==
        [f EXCEPT !.typedName = data.foodName, !.servings = OfCenti(data.servings),
                  !.servingsEntered = OfCenti(data.servings),
                  !.perServing = PerServingOf(data), !.selectedFood = found,
                  !.servingSizeGrams = grams, !.useGramsInput = useGrams,
                  !.grams = IF useGrams /\ Truthy(grams)
                              THEN roundTo2(TimesCenti(OfCenti(data.servings), grams))
                              ELSE f.grams]
      WithFood(data, found) ==
        Loaded(data, found, getServingSizeGramsValue(found),
               ~hasTrueServing(found) /\ Truthy(getServingSizeGramsValue(found)))
      WithData(data) ==
        WithFood(data, FindFood(foods, [i \in 1..Len(foods) |-> foods[i].name = data.foodName]))
      At(at) == IF entryId = NoId \/ at = 0 THEN f ELSE WithData(list[at])
  IN At(FindIndex([i \in 1..Len(list) |-> list[i].id = entryId]))

\* renderEntryForm up to the first user event
renderEntryForm(foods, list, prefillId, entryId) ==
  LET Shown(loaded) ==
        setFoodSelectionState(
          updateEntryInputMode(loaded, loaded.selectedFood),
          loaded.selectedFood # Null \/ (entryId # NoId /\ TrimSeq(loaded.typedName) # <<>>))
  IN Shown(EditLoaded(Prefilled([BlankForm EXCEPT !.entryId = entryId], foods, prefillId),
                      foods, list, entryId))

\* sortFoodsForPicker's filter: the foods the picker offers for a search term
Offered(food, term) ==
  LET keyword == LowerSeq(TrimSeq(term)) IN
  IF keyword = <<>> THEN food.favorite ELSE Includes(LowerSeq(food.name), keyword)

\* sortFoodsForPicker that filters and does not sort
sortFoodsForPicker_unsorted(foods, term) ==
  LET Matches(food) == Offered(food, term)
  IN [result |-> SelectSeq(foods, Matches), foods |-> foods]

\* sortFoodsForPicker: result is the array returned, foods the array passed
\* as the call leaves it.  filter makes a new array, which sort then orders in
\* place; the sort is stable, so an element's place is one more than the
\* number of elements the comparison, or at a tie the array, puts before it.
\* localeCompare is taken on names of lower-case letters.
sortFoodsForPicker(foods, term) ==
  LET keyword == LowerSeq(TrimSeq(term))
      Matches(food) ==
        IF keyword = <<>> THEN food.favorite ELSE Includes(LowerSeq(food.name), keyword)
      matches == SelectSeq(foods, Matches)
      StartsAt(s, i) == i + Len(keyword) <= Len(s) /\ SubSeq(s, i + 1, i + Len(keyword)) = keyword
      indexOf(s) ==
        IF \E i \in 0..Len(s) : StartsAt(s, i)
          THEN CHOOSE i \in 0..Len(s) : StartsAt(s, i) /\ \A j \in 0..(i - 1) : ~StartsAt(s, j)
          ELSE -1
      Alphabet == <<"a", "c", "g", "l", "m", "o", "p", "r", "s", "t", "u">>
      Rank(c) == CHOOSE k \in 1..Len(Alphabet) : Alphabet[k] = c
      Differ(a, b, i) == i > Len(a) \/ i > Len(b) \/ a[i] # b[i]
      First(a, b) == CHOOSE i \in 1..(Len(a) + 1) : Differ(a, b, i) /\ \A j \in 1..(i - 1) : ~Differ(a, b, j)
      localeCompare(a, b) ==
        IF a = b THEN 0
        ELSE IF First(a, b) > Len(a) THEN -1
        ELSE IF First(a, b) > Len(b) THEN 1
        ELSE Rank(a[First(a, b)]) - Rank(b[First(a, b)])
      compare(a, b) ==
        IF a.favorite # b.favorite THEN (IF a.favorite THEN -1 ELSE 1)
        ELSE IF indexOf(LowerSeq(a.name)) # indexOf(LowerSeq(b.name))
          THEN indexOf(LowerSeq(a.name)) - indexOf(LowerSeq(b.name))
        ELSE localeCompare(a.name, b.name)
      Before(i, j) == compare(matches[i], matches[j]) < 0
                        \/ (compare(matches[i], matches[j]) = 0 /\ i < j)
      Place(j) == 1 + Cardinality({ i \in 1..Len(matches) : Before(i, j) })
      At(k) == CHOOSE j \in 1..Len(matches) : Place(j) = k
  IN [result |-> [k \in 1..Len(matches) |-> matches[At(k)]], foods |-> foods]

\* editedEntry is a history field: the entry the entry form was editing when
\* it handed over to the food form, NoId when it was adding one
NoFoodForm ==
  [foodId |-> NoId, returnDate |-> FALSE, prefillName |-> <<>>, editedEntry |-> NoId]

Init ==
  /\ foodCache \in SeedCatalogs
  /\ events = 0
  /\ entries = <<>>
  /\ nextId = FirstNewId
  /\ view = "dashboard"
  /\ form = BlankForm
  /\ prefillFoodId = NoId
  /\ foodForm = NoFoodForm
  /\ dashboard = renderDashboard(<<>>)
  /\ alertMsg = "none"
  /\ submitted = Null
  /\ probe = Null
  /\ probeOut = Null

\* an event handler that raises no alert
Quiet == /\ alertMsg' = "none"
         /\ UNCHANGED <<submitted, probe, probeOut>>

\* setView('add-entry', { date, entryId }): the entry form as rendered
ShowEntryForm(foods, prefillId, entryId) ==
  /\ view' = "entry"
  /\ form' = renderEntryForm(foods, entries, prefillId, entryId)
  /\ prefillFoodId' = NoId
  /\ foodForm' = NoFoodForm
  /\ dashboard' = NoDashboard

\* setView('dashboard')
ShowDashboard(list) ==
  /\ view' = "dashboard"
  /\ form' = BlankForm
  /\ foodForm' = NoFoodForm
  /\ dashboard' = renderDashboard(list)

\* dashboard: the "Add entry" button
OpenAddEntry ==
  /\ view = "dashboard"
  /\ ShowEntryForm(foodCache, prefillFoodId, NoId)
  /\ Quiet
  /\ UNCHANGED <<foodCache, events, entries, nextId>>

\* dashboard: an entry row's "Edit" button
OpenEditEntry ==
  /\ view = "dashboard"
  /\ \E i \in 1..Len(entries) : ShowEntryForm(foodCache, prefillFoodId, entries[i].id)
  /\ Quiet
  /\ UNCHANGED <<foodCache, events, entries, nextId>>

\* entry form: click on a food of the picker
PickFood ==
  /\ view = "entry"
  /\ ~form.foodLocked
  /\ \E i \in 1..Len(foodCache) :
       LET food == foodCache[i]
           Picked(grams, useGrams) ==
             [form EXCEPT !.selectedFood = food, !.foodLocked = TRUE,
                          !.typedName = food.name, !.perServing = PerServingOf(food),
                          !.servingSizeGrams = grams, !.useGramsInput = useGrams,
                          !.grams = IF useGrams THEN NoNum ELSE form.grams]
       IN /\ Offered(food, form.typedName)
          /\ form' = setFoodSelectionState(
               updateEntryInputMode(
                 Picked(getServingSizeGramsValue(food),
                        ~hasTrueServing(food) /\ Truthy(getServingSizeGramsValue(food))),
                 food),
               TRUE)
  /\ Quiet
  /\ UNCHANGED <<foodCache, events, entries, nextId, view, prefillFoodId, foodForm, dashboard>>

\* entry form: the "Change" button of the selected-food card
ChangeFood ==
  /\ view = "entry"
  /\ form.foodLocked
  /\ form' = setFoodSelectionState(
       updateEntryInputMode(
         [form EXCEPT !.selectedFood = Null, !.typedName = <<>>, !.grams = NoNum], Null),
       FALSE)
  /\ Quiet
  /\ UNCHANGED <<foodCache, events, entries, nextId, view, prefillFoodId, foodForm, dashboard>>

\* entry form: typing in the food search box
TypeSearch ==
  /\ view = "entry"
  /\ events < MaxEvents
  /\ events' = events + 1
  /\ ~form.foodLocked
  /\ \E text \in SearchTexts :
       form' = setFoodSelectionState(
         updateEntryInputMode(
           [form EXCEPT !.typedName = text, !.selectedFood = Null, !.grams = NoNum], Null),
         FALSE)
  /\ Quiet
  /\ UNCHANGED <<foodCache, entries, nextId, view, prefillFoodId, foodForm, dashboard>>

\* entry form: typing in the servings field (shown in servings mode)
TypeServings ==
  /\ view = "entry"
  /\ events < MaxEvents
  /\ events' = events + 1
  /\ form.foodLocked
  /\ ~form.useGramsInput
  /\ \E raw \in ServingsTexts :
       form' = updateTotals([form EXCEPT !.servings = OfCenti(parseDecimal2(raw, 1)),
                                         !.servingsEntered = OfCenti(parseDecimal2(raw, 1))])
  /\ Quiet
  /\ UNCHANGED <<foodCache, entries, nextId, view, prefillFoodId, foodForm, dashboard>>

\* entry form: typing in the grams field (shown in grams mode)
TypeGrams ==
  /\ view = "entry"
  /\ events < MaxEvents
  /\ events' = events + 1
  /\ form.foodLocked
  /\ form.useGramsInput
  /\ \E raw \in GramsTexts :
       LET value == parseDecimalNullable(raw, 1) IN
       form' = updateTotals(
         [form EXCEPT !.grams = value,
                      !.servings =
                        IF form.useGramsInput /\ Truthy(form.servingSizeGrams)
                          THEN (IF Truthy(value) THEN Frac(value, form.servingSizeGrams) ELSE Zero)
                          ELSE Zero])
  /\ Quiet
  /\ UNCHANGED <<foodCache, entries, nextId, view, prefillFoodId, foodForm, dashboard>>

\* entry form: typing in one of the three macro fields
TypeMacro ==
  /\ view = "entry"
  /\ events < MaxEvents
  /\ events' = events + 1
  /\ form.foodLocked
  /\ \E field \in {"calories", "carbs", "protein"}, raw \in MacroTexts :
       form' = updateTotals([form EXCEPT !.perServing[field] = parseDecimal2(raw, 0)])
  /\ Quiet
  /\ UNCHANGED <<foodCache, entries, nextId, view, prefillFoodId, foodForm, dashboard>>

\* entry form: "Back" and "Cancel"
LeaveEntryForm ==
  /\ view = "entry"
  /\ ShowDashboard(entries)
  /\ Quiet
  /\ UNCHANGED <<foodCache, events, entries, nextId, prefillFoodId>>

\* ------------------------------------------------------------------ foods

\* upsertFood's payload: what it writes for the fields it is given
upsertPayload(food) ==
  [name |-> TrimSeq(food.name),
   caloriesPerServing |-> roundTo2(OfCenti(food.caloriesPerServing)),
   carbsPerServing |-> roundTo2(OfCenti(food.carbsPerServing)),
   proteinPerServing |-> roundTo2(OfCenti(food.proteinPerServing)),
   favorite |-> food.favorite,
   servingSize |-> IF food.servingSize # NoNum /\ food.servingSize > 0
                     THEN roundTo2(OfCenti(food.servingSize)) ELSE NoNum,
   servingSizeUnit |-> IF food.servingSizeUnit # NoUnit /\ food.servingSizeUnit # ""
                         THEN food.servingSizeUnit ELSE NoUnit,
   servingSizeGrams |-> IF food.servingSizeGrams # NoNum /\ food.servingSizeGrams > 0
                          THEN roundTo2(OfCenti(food.servingSizeGrams)) ELSE NoNum]

\* { ...f, ...payload }: a field the payload leaves out keeps its old value
Merged(old, payload) ==
  [old EXCEPT !.name = payload.name,
              !.caloriesPerServing = payload.caloriesPerServing,
              !.carbsPerServing = payload.carbsPerServing,
              !.proteinPerServing = payload.proteinPerServing,
              !.favorite = payload.favorite,
              !.servingSize = IF payload.servingSize # NoNum THEN payload.servingSize ELSE @,
              !.servingSizeUnit = IF payload.servingSizeUnit # NoUnit THEN payload.servingSizeUnit ELSE @,
              !.servingSizeGrams = IF payload.servingSizeGrams # NoNum THEN payload.servingSizeGrams ELSE @]

\* state.foodCache after upsertFood(food); food.id = NoId adds under newId
upsertFood(cache, food, newId) ==
  LET payload == upsertPayload(food) IN
  IF food.id # NoId
    THEN [i \in 1..Len(cache) |-> IF cache[i].id = food.id THEN Merged(cache[i], payload) ELSE cache[i]]
    ELSE Append(cache, payload @@ [id |-> newId])

\* ------------------------------------------------------------------ entry submit

EntryPayload(f, foodName, id) ==
  [id |-> id, foodName |-> foodName, servings |-> roundTo2(f.servings),
   caloriesPerServing |-> roundTo2(OfCenti(f.perServing.calories)),
   carbsPerServing |-> roundTo2(OfCenti(f.perServing.carbs)),
   proteinPerServing |-> roundTo2(OfCenti(f.perServing.protein))]

\* the validation that skips the test of the grams eaten
SubmitAlert_gramsUnchecked(f) ==
  IF TrimSeq(f.typedName) = <<>> THEN "Food name is required."
  ELSE IF f.useGramsInput /\ ~Truthy(f.servingSizeGrams)
    THEN "Serving size grams are missing for this food."
  ELSE "none"

\* the validation of the submit handler: the alert it raises, or "none"
SubmitAlert(f) ==
  IF TrimSeq(f.typedName) = <<>> THEN "Food name is required."
  ELSE IF f.useGramsInput /\ ~Truthy(f.servingSizeGrams)
    THEN "Serving size grams are missing for this food."
  ELSE IF f.useGramsInput /\ (~Truthy(f.grams) \/ f.grams <= 0) THEN "Enter the grams eaten."
  ELSE "none"

\* the quantity the amount field of the form shows: grams eaten in grams
\* mode, the servings count (to two decimals) in servings mode
ShownQuantity(f) == IF f.useGramsInput THEN f.grams ELSE roundTo2(f.servings)

\* history of an accepted submit: the mode and quantity of the form, and the
\* food that bears the entry's name once the entry is written
Submitted(f, cache, foodName, id) ==
  [id |-> id, useGramsInput |-> f.useGramsInput, quantity |-> ShownQuantity(f),
   food |-> FindFood(cache, [i \in 1..Len(cache) |-> cache[i].name = foodName])]

\* a write that keeps the document's createdAt, and so its place in the list
WroteEntry_inPlace(list, payload) ==
  IF \E i \in 1..Len(list) : list[i].id = payload.id
    THEN [i \in 1..Len(list) |-> IF list[i].id = payload.id THEN payload ELSE list[i]]
    ELSE Append(list, payload)

\* setDoc(entryRef, payload, { merge: true }): the document gets a fresh
\* createdAt and so becomes the last of the day's list
WroteEntry(list, payload) ==
  LET Other(e) == e.id # payload.id IN Append(SelectSeq(list, Other), payload)

\* entry form: "Save entry"
Submit ==
  /\ view = "entry"
  /\ alertMsg' = SubmitAlert(form)
  /\ UNCHANGED <<probe, probeOut, prefillFoodId>>
  /\ IF SubmitAlert(form) # "none"
       THEN UNCHANGED <<foodCache, events, entries, nextId, view, form, foodForm, dashboard,
                        submitted>>
       ELSE
         LET foodName == TrimSeq(form.typedName)
             resolved == IF form.useGramsInput
                           THEN [form EXCEPT !.servings = Frac(form.grams, form.servingSizeGrams)]
                           ELSE form
             existingFood ==
               FindFood(foodCache,
                        [i \in 1..Len(foodCache) |->
                           LowerSeq(TrimSeq(foodCache[i].name)) = LowerSeq(foodName)])
             created == existingFood = Null
             cache == IF created
                        THEN upsertFood(foodCache,
                               [id |-> NoId, name |-> foodName,
                                caloriesPerServing |-> form.perServing.calories,
                                carbsPerServing |-> form.perServing.carbs,
                                proteinPerServing |-> form.perServing.protein,
                                favorite |-> FALSE, servingSize |-> NoNum,
                                servingSizeUnit |-> NoUnit, servingSizeGrams |-> NoNum],
                               nextId)
                        ELSE foodCache
             entryDocId == IF form.entryId # NoId THEN form.entryId
                           ELSE IF created THEN nextId + 1 ELSE nextId
             written == WroteEntry(entries, EntryPayload(resolved, foodName, entryDocId))
         IN /\ events < MaxEvents
            /\ events' = events + 1
            /\ foodCache' = cache
            /\ submitted' = Submitted(resolved, cache, foodName, entryDocId)
            /\ entries' = written
            /\ nextId' = nextId + (IF created THEN 1 ELSE 0) + (IF form.entryId = NoId THEN 1 ELSE 0)
            /\ ShowDashboard(written)

\* ------------------------------------------------------------------ food form and foods list

\* entry form: "Edit food" of the selected-food card
EditSelectedFood ==
  /\ view = "entry"
  /\ form.foodLocked
  /\ form.selectedFood # Null
  /\ view' = "food"
  /\ foodForm' = [foodId |-> form.selectedFood.id, returnDate |-> TRUE, prefillName |-> <<>>,
                  editedEntry |-> form.entryId]
  /\ form' = BlankForm
  /\ Quiet
  /\ UNCHANGED <<foodCache, events, entries, nextId, prefillFoodId, dashboard>>

\* entry form: the picker's 'Create "<term>"' button
CreateFoodInline ==
  /\ view = "entry"
  /\ ~form.foodLocked
  /\ TrimSeq(form.typedName) # <<>>
  /\ \A i \in 1..Len(foodCache) : ~Offered(foodCache[i], form.typedName)
  /\ view' = "food"
  /\ foodForm' = [foodId |-> NoId, returnDate |-> TRUE, prefillName |-> form.typedName,
                  editedEntry |-> form.entryId]
  /\ form' = BlankForm
  /\ Quiet
  /\ UNCHANGED <<foodCache, events, entries, nextId, prefillFoodId, dashboard>>

\* navigation: the foods list
OpenFoods ==
  /\ view = "dashboard"
  /\ view' = "foods"
  /\ dashboard' = NoDashboard
  /\ Quiet
  /\ UNCHANGED <<foodCache, events, entries, nextId, form, prefillFoodId, foodForm>>

\* navigation: back to the dashboard
LeaveFoods ==
  /\ view = "foods"
  /\ ShowDashboard(entries)
  /\ Quiet
  /\ UNCHANGED <<foodCache, events, entries, nextId, prefillFoodId>>

\* foods list: a food card (edit) and "Add food"
OpenFoodForm ==
  /\ view = "foods"
  /\ \E id \in {NoId} \cup {foodCache[i].id : i \in 1..Len(foodCache)} :
       foodForm' = [foodId |-> id, returnDate |-> FALSE, prefillName |-> <<>>,
                    editedEntry |-> NoId]
  /\ view' = "food"
  /\ Quiet
  /\ UNCHANGED <<foodCache, events, entries, nextId, form, prefillFoodId, dashboard>>

\* foods list: the star of a food card
ToggleFavorite ==
  /\ view = "foods"
  /\ events < MaxEvents
  /\ events' = events + 1
  /\ \E i \in 1..Len(foodCache) :
       foodCache' = [foodCache EXCEPT ![i].favorite = ~foodCache[i].favorite]
  /\ Quiet
  /\ UNCHANGED <<entries, nextId, view, form, prefillFoodId, foodForm, dashboard>>

\* foods list: the bin of a food card, confirmed
DeleteFood ==
  /\ view = "foods"
  /\ \E i \in 1..Len(foodCache) :
       LET Other(x) == x.id # foodCache[i].id
           Named(j) == entries[j].foodName = foodCache[i].name
       IN /\ foodCache' = SelectSeq(foodCache, Other)
          /\ IF \E j \in 1..Len(entries) : Named(j)
               THEN UNCHANGED events
               ELSE events < MaxEvents /\ events' = events + 1
  /\ Quiet
  /\ UNCHANGED <<entries, nextId, view, form, prefillFoodId, foodForm, dashboard>>

\* the serving variables of renderFoodForm when it opens for `food`
LoadedServingGrams(food) ==
  LET stored == IF food = Null THEN NoNum
                ELSE IF food.servingSizeGrams # NoNum THEN food.servingSizeGrams
                ELSE IF food.servingSizeUnit = "g" THEN food.servingSize
                ELSE NoNum
  IN IF ~Truthy(stored) /\ food # Null /\ ~isPer100gUnit(food.servingSizeUnit) THEN 10000 ELSE stored

\* the states the food form can be in when "Save food" is pressed: everything
\* as loaded; renamed; the macros retyped; the serving-grams field retyped
\* (which sets the unit to grams); a lookup draft on the 100 g basis applied.
\* gramsText is the text of the serving-grams field, which must not be empty.
FoodFormStates(food, prefillName) ==
  LET loadedName == IF food # Null THEN food.name ELSE TrimSeq(prefillName)
      name == IF loadedName # <<>> THEN loadedName ELSE NewFoodName
      macros == IF food # Null THEN PerServingOf(food) ELSE NewFoodMacros
      favorite == IF food # Null THEN food.favorite ELSE FALSE
      State(n, m, unit, text) ==
        [name |-> n, macros |-> m, favorite |-> favorite,
         serving |-> [servingSizeUnit |-> unit, gramsText |-> text]]
      typed == { State(name, macros, "g", t) : t \in FoodGramsTexts }
      draft == { State(name, NewFoodMacros, PER_100G_UNIT, formatNumberSmart(10000)) }
      loaded == IF Truthy(LoadedServingGrams(food))
                  THEN LET text == formatNumberSmart(LoadedServingGrams(food)) IN
                       { State(name, macros, food.servingSizeUnit, text),
                         State(NewFoodName, macros, food.servingSizeUnit, text),
                         State(name, NewFoodMacros, food.servingSizeUnit, text) }
                  ELSE {}
  IN typed \cup draft \cup loaded

\* the payload that keeps the unit the form was loaded with
FoodFormPayload_keepsUnit(st, id) ==
  LET gramsValue == parseDecimal2(st.serving.gramsText, 1)
      per100g == isPer100gUnit(st.serving.servingSizeUnit)
  IN [id |-> id, name |-> TrimSeq(st.name),
      caloriesPerServing |-> st.macros.calories, carbsPerServing |-> st.macros.carbs,
      proteinPerServing |-> st.macros.protein, favorite |-> st.favorite,
      servingSize |-> IF per100g THEN 10000 ELSE gramsValue,
      servingSizeUnit |-> st.serving.servingSizeUnit,
      servingSizeGrams |-> IF per100g THEN 10000 ELSE gramsValue]

\* the payload of the food form's submit handler
FoodFormPayload(st, id) ==
  LET gramsValue == parseDecimal2(st.serving.gramsText, 1)
      per100g == isPer100gUnit(st.serving.servingSizeUnit)
  IN [id |-> id, name |-> TrimSeq(st.name),
      caloriesPerServing |-> st.macros.calories, carbsPerServing |-> st.macros.carbs,
      proteinPerServing |-> st.macros.protein, favorite |-> st.favorite,
      servingSize |-> IF per100g THEN 10000 ELSE gramsValue,
      servingSizeUnit |-> IF per100g THEN PER_100G_UNIT ELSE "g",
      servingSizeGrams |-> IF per100g THEN 10000 ELSE gramsValue]

\* the food form of a new food once a lookup draft is applied to it
\* (applyDraftFromBarcode, applyDraftFromLookup), in the shape of FoodFormStates
AppliedDraft(draft) ==
  [name |-> draft.name, macros |-> PerServingOf(draft), favorite |-> FALSE,
   serving |-> [servingSizeUnit |-> draft.servingSizeUnit,
                gramsText |-> IF Truthy(draft.servingSizeGrams)
                                THEN formatNumberSmart(draft.servingSizeGrams) ELSE <<>>]]

\* onSave of renderAddFoodView: the saved food replaces (or joins) the cache
Saved(cache, food) ==
  IF \E i \in 1..Len(cache) : cache[i].id = food.id
    THEN [i \in 1..Len(cache) |-> IF cache[i].id = food.id THEN food ELSE cache[i]]
    ELSE Append(cache, food)

\* food form: "Save food"
FoodFormSave ==
  /\ view = "food"
  /\ events < MaxEvents
  /\ events' = events + 1
  /\ LET editingFood ==
           IF foodForm.foodId = NoId THEN Null
           ELSE FindFood(foodCache,
                         [i \in 1..Len(foodCache) |-> foodCache[i].id = foodForm.foodId])
         id == IF editingFood # Null THEN editingFood.id ELSE nextId
     IN \E st \in FoodFormStates(editingFood, foodForm.prefillName) :
          LET payload == FoodFormPayload(st, IF editingFood # Null THEN editingFood.id ELSE NoId)
              cache == Saved(upsertFood(foodCache, payload, nextId), [payload EXCEPT !.id = id])
          IN /\ foodCache' = cache
             /\ nextId' = IF editingFood # Null THEN nextId ELSE nextId + 1
             /\ IF foodForm.returnDate
                  THEN ShowEntryForm(cache, id, NoId)
                  ELSE /\ view' = "foods"
                       /\ foodForm' = NoFoodForm
                       /\ prefillFoodId' = NoId
                       /\ UNCHANGED <<form, dashboard>>
  /\ Quiet
  /\ UNCHANGED entries

\* food form: "Back"
FoodFormBack ==
  /\ view = "food"
  /\ IF foodForm.returnDate
       THEN ShowEntryForm(foodCache, prefillFoodId, NoId)
       ELSE /\ view' = "foods"
            /\ foodForm' = NoFoodForm
            /\ UNCHANGED <<form, prefillFoodId, dashboard>>
  /\ Quiet
  /\ UNCHANGED <<foodCache, events, entries, nextId>>

Next ==
  \/ OpenAddEntry
  \/ OpenEditEntry
  \/ PickFood
  \/ ChangeFood
  \/ TypeSearch
  \/ TypeServings
  \/ TypeGrams
  \/ TypeMacro
  \/ LeaveEntryForm
  \/ Submit
  \/ EditSelectedFood
  \/ CreateFoodInline
  \/ OpenFoods
  \/ LeaveFoods
  \/ OpenFoodForm
  \/ ToggleFavorite
  \/ DeleteFood
  \/ FoodFormSave
  \/ FoodFormBack

Spec == Init /\ [][Next]_vars

\* A second specification starts on a day that already holds three entries,
\* one of each food of the collection, written in the collection's order,
\* and follows the events of the dashboard and the entry form; the foods list
\* and the food form are left out.
InitDay ==
  /\ foodCache \in SeedCatalogs
  /\ events = 0
  /\ entries = [i \in 1..3 |->
                  [id |-> FirstNewId + i - 1, foodName |-> foodCache[i].name,
                   servings |-> 100 * i,
                   caloriesPerServing |-> foodCache[i].caloriesPerServing,
                   carbsPerServing |-> foodCache[i].carbsPerServing,
                   proteinPerServing |-> foodCache[i].proteinPerServing]]
  /\ nextId = FirstNewId + 3
  /\ view = "dashboard"
  /\ form = BlankForm
  /\ prefillFoodId = NoId
  /\ foodForm = NoFoodForm
  /\ dashboard = renderDashboard(entries)
  /\ alertMsg = "none"
  /\ submitted = Null
  /\ probe = Null
  /\ probeOut = Null

NextDay ==
  \/ OpenAddEntry
  \/ OpenEditEntry
  \/ PickFood
  \/ ChangeFood
  \/ TypeSearch
  \/ TypeServings
  \/ TypeGrams
  \/ TypeMacro
  \/ LeaveEntryForm
  \/ Submit

SpecDay == InitDay /\ [][NextDay]_vars

\* ------------------------------------------------------------------ pure functions
\* A second specification applies the resolver functions and the USDA draft
\* builder to every input of a bounded set: Init picks the argument, the
\* action applies the function.

AnchorProbes ==
  { [kind |-> "anchor",
     options |-> [servingSizeGrams |-> g, servingSize |-> z, servingSizeUnit |-> u,
                  servingLabel |-> l]] :
    g \in {NoNum, 0, 4500}, z \in {NoNum, 0, 3000},
    u \in UnitSpellings \cup {NoUnit},
    l \in { NoLabel, <<>>, <<"1", " ", "c", "u", "p">>,
            <<"1", " ", "c", "u", "p", " ", "(", "2", "4", "0", " ", "M", "L", ")">>,
            <<"2", ",", "5", "g">>, <<"4", "5", " ", "g", "r", "a", "m", "s">>,
            <<"0", " ", "g">>, <<"0", " ", "g", " ", "3", "0", "g">> } }

UsdaProbes ==
  { [kind |-> "usda",
     result |-> [description |-> <<"m", "u">>, calories |-> c, carbs |-> b, protein |-> p,
                 servingSize |-> z, servingSizeUnit |-> u]] :
    c \in {NoNum, 25000}, b \in {NoNum, 3000}, p \in {500, -500},
    z \in {NoNum, 4500, 24000},
    u \in {NoUnit, "g", "Grams", "ml", " ML", "oz", "per100g"} }

\* responses of the Open Food Facts product API, read as JSON
OffProbes ==
  { [kind |-> "off",
     data |-> [status |-> 1,
               product |->
                 [product_name |-> <<"m", "u">>, serving_size |-> l,
                  serving_quantity |-> q, serving_unit |-> u,
                  nutriments |->
                    [energy_kcal_serving |-> e[1], energy_kj_serving |-> e[2],
                     energy_kcal_100g |-> e[3], energy_kj_100g |-> e[4],
                     proteins_serving |-> p[1], proteins_100g |-> p[2],
                     carbohydrates_serving |-> c[1], carbohydrates_100g |-> c[2]]]]] :
    l \in { NoLabel, <<"1", " ", "c", "u", "p">>, <<"4", "5", " ", "g">>,
            <<"1", " ", "c", "u", "p", " ", "(", "2", "4", "0", " ", "M", "L", ")">> },
    q \in {NoNum, 0, 3000},
    u \in {NoUnit, "G", "ml", "oz"},
    e \in { <<NoNum, NoNum, NoNum, NoNum>>, <<11300, NoNum, 25000, NoNum>>,
            <<NoNum, 47300, NoNum, NoNum>>, <<NoNum, NoNum, 25000, NoNum>>,
            <<NoNum, NoNum, NoNum, 104600>>, <<NoNum, NoNum, -25000, NoNum>> },
    p \in { <<NoNum, NoNum>>, <<230, 500>>, <<NoNum, 500>>, <<NoNum, -500>> },
    c \in { <<NoNum, NoNum>>, <<1350, NoNum>>, <<NoNum, 3000>>, <<-100, 3000>> } }
  \cup { [kind |-> "off", data |-> [status |-> 0, product |-> Null]] }

\* saved foods a barcode can match
SavedProbes == { [kind |-> "saved", food |-> f] : f \in {Apple, Oats, Tahini, Gout, Roti, Soup} }

\* food caches, in any order, and the texts of the search box for the picker
PickerProbes ==
  LET Pool == {Apple, Oats, Tahini, Gout, Roti, Soup}
      Caches == { s \in UNION { [1..n -> Pool] : n \in 0..4 } :
                    \A i, j \in 1..Len(s) : i # j => s[i] # s[j] }
  IN { [kind |-> "picker", foods |-> s, term |-> t] :
       s \in Caches,
       t \in { <<>>, <<" ">>, <<"O">>, <<"a">>, <<"t", " ">>, <<"o">>, <<"m", "u", " ">> } }

RawChars == {"0", "1", "2", "9", ".", "-"}

\* what a decimal field can hold when it is read, and the floor of the field
\* in thousandths: 0, 0.01, 1, 12.5 and 0.006
DecimalProbes ==
  { [kind |-> "decimal", raw |-> r, min |-> m] :
    r \in UNION { [1..n -> RawChars] : n \in 0..MaxRawLen }
          \cup { <<"1", "2", ".", "9", "9", "9">>, <<"1", ".", "2", ".", "3">>,
                 <<"a", "b", "c">>, <<"1", ",", "5", " ", "g">> },
    m \in {0, 10, 1000, 12500, 6} }

InitPure ==
  /\ probe \in AnchorProbes \cup UsdaProbes \cup OffProbes \cup SavedProbes \cup DecimalProbes
                 \cup PickerProbes
  /\ probeOut = Null
  /\ foodCache = <<>>
  /\ events = 0
  /\ entries = <<>>
  /\ nextId = FirstNewId
  /\ view = "dashboard"
  /\ form = BlankForm
  /\ prefillFoodId = NoId
  /\ foodForm = NoFoodForm
  /\ dashboard = renderDashboard(<<>>)
  /\ alertMsg = "none"
  /\ submitted = Null

AppUnchanged ==
  UNCHANGED <<foodCache, events, entries, nextId, view, form, prefillFoodId, foodForm,
              dashboard, alertMsg, submitted, probe>>

\* resolveServingAnchor on the option bag, and the three functions of a food
\* on the bag's food fields
ResolveAnchor ==
  /\ probe.kind = "anchor"
  /\ probeOut = Null
  /\ probeOut' = [anchor |-> resolveServingAnchor(probe.options),
                  foodAnchor |-> resolveServingAnchor(FoodServingOptions(probe.options)),
                  hasTrueServing |-> hasTrueServing(probe.options),
                  gramsValue |-> getServingSizeGramsValue(probe.options),
                  listLabel |-> getFoodBasis(probe.options).label,
                  entryLabel |-> getEntryMacroBasisLabel(probe.options)]
  /\ AppUnchanged

\* what a draft leads to: the basis line of its summary card and the document
\* that "Save food" writes from it
DraftOut(draft) ==
  [draft |-> draft,
   summaryLabel |-> IF draft = Null THEN Null ELSE getSummaryBasisLabel(draft),
   saved |-> IF draft = Null THEN Null
             ELSE upsertPayload(FoodFormPayload(AppliedDraft(draft), NoId))]

BuildUsdaDraft ==
  /\ probe.kind = "usda"
  /\ probeOut = Null
  /\ probeOut' = DraftOut(createUsdaDraftFromResult(probe.result))
                  @@ [servingGrams |-> getUsdaServingGrams(probe.result)]
  /\ AppUnchanged

BuildOffDraft ==
  /\ probe.kind = "off"
  /\ probeOut = Null
  /\ probeOut' = DraftOut(lookupOpenFoodFacts(probe.data))
  /\ AppUnchanged

BuildSavedDraft ==
  /\ probe.kind = "saved"
  /\ probeOut = Null
  /\ probeOut' = DraftOut(createDraftFromFood(probe.food))
  /\ AppUnchanged

\* a decimal field read on input, shown again on blur and read once more
\* (attachDecimalInput), and the same text read by parseDecimalNullable;
\* value, nullable and again are in thousandths
ReadDecimal ==
  /\ probe.kind = "decimal"
  /\ probeOut = Null
  /\ LET Shown(value) ==
           [value |-> value,
            nullable |-> parseDecimalNullableFine(probe.raw, probe.min),
            shown |-> formatNumberSmart(roundTo2(Frac(value, 1000))),
            again |-> parseDecimal2Fine(formatNumberSmart(roundTo2(Frac(value, 1000))),
                                        probe.min)]
     IN probeOut' = Shown(parseDecimal2Fine(probe.raw, probe.min))
  /\ AppUnchanged

\* the entry form's picker lists the foods for the text of the search box
renderFoodSuggestions ==
  /\ probe.kind = "picker"
  /\ probeOut = Null
  /\ probeOut' = sortFoodsForPicker(probe.foods, probe.term)
  /\ AppUnchanged

NextPure ==
  \/ ResolveAnchor
  \/ BuildUsdaDraft
  \/ BuildOffDraft
  \/ BuildSavedDraft
  \/ ReadDecimal
  \/ renderFoodSuggestions

SpecPure == InitPure /\ [][NextPure]_vars


\* ------------------------------------------------------------------ barcode lookup
\* A third specification follows one barcode through the scan modal's
\* handleLookup and the food form's lookupBarcode.  probe is the setting: the
\* saved foods that carry the barcode, whether the barcode has 8 to 14 digits
\* and whether the build has a USDA API key.  probeOut is the lookup: pc is
\* the await it stands at, modal what the scan modal shows, status the status
\* of lookupBarcode's result ("threw" for an exception), off and usda what the
\* two services answered, cancelled whether the user closed the modal while
\* the lookup ran, applied the draft that applyDraftFromBarcode has put into
\* the food form (which is new and empty, so that no overwrite is to be
\* confirmed) and foodFormMode the form's mode.

BarcodeProbes ==
  { [kind |-> "barcode", barcoded |-> ids, valid |-> v, usdaKey |-> k] :
    ids \in {{}, {1}, {2, 6}, {3, 4}}, v \in BOOLEAN, k \in BOOLEAN }

\* what the Open Food Facts request can come to: a rejected fetch or a
\* response that is not ok, else the JSON of the response
OffResponses ==
  { [ok |-> FALSE] }
  \cup { [ok |-> TRUE, data |-> d.data] :
         d \in { x \in OffProbes :
                   \/ x.data.status = 0
                   \/ /\ x.data.product.serving_quantity = NoNum
                      /\ x.data.product.serving_unit = NoUnit
                      /\ x.data.product.nutriments.energy_kj_100g = NoNum
                      /\ x.data.product.nutriments.energy_kcal_100g = 25000
                      /\ x.data.product.nutriments.carbohydrates_100g = 3000
                      /\ x.data.product.nutriments.carbohydrates_serving = NoNum
                      /\ x.data.product.nutriments.proteins_serving = NoNum
                      /\ x.data.product.serving_size \in {NoLabel, <<"4", "5", " ", "g">>} } }

\* what the USDA barcode search can come to: a failed request, else the
\* results, each with whether its gtinUpc is the barcode
UsdaResponses ==
  LET Result(c, z, u, gtin) ==
        [result |-> [description |-> <<"m", "u">>, calories |-> c, carbs |-> NoNum,
                     protein |-> NoNum, servingSize |-> z, servingSizeUnit |-> u],
         gtin |-> gtin]
  IN { [ok |-> FALSE] }
     \cup { [ok |-> TRUE, results |-> r] :
            r \in { <<>>, <<Result(25000, 4500, "g", TRUE)>>,
                    <<Result(NoNum, NoNum, NoUnit, FALSE)>>,
                    <<Result(25000, 4500, "g", TRUE), Result(NoNum, NoNum, NoUnit, FALSE)>>,
                    <<Result(25000, 4500, "g", FALSE), Result(NoNum, NoNum, NoUnit, FALSE)>> } }

InitLookup ==
  /\ probe \in BarcodeProbes
  /\ probeOut = [pc |-> "scan", modal |-> "scan", status |-> "none", draft |-> Null,
                 source |-> "none", off |-> "none", usda |-> "none", candidates |-> <<>>,
                 cancelled |-> FALSE, applied |-> Null, foodFormMode |-> "edit"]
  /\ foodCache \in { <<Apple, Oats, Soup>>, <<Gout, Roti, Tahini>> }
  /\ events = 0
  /\ entries = <<>>
  /\ nextId = FirstNewId
  /\ view = "food"
  /\ form = BlankForm
  /\ prefillFoodId = NoId
  /\ foodForm = NoFoodForm
  /\ dashboard = NoDashboard
  /\ alertMsg = "none"
  /\ submitted = Null

\* handleLookup once lookupBarcode has returned, or has thrown: the result,
\* the draft that onDetected applies to the food form, and what the modal
\* then shows (nothing once its overlay has been removed)
Returned(out, status, draft, source) ==
  [out EXCEPT !.pc = "done", !.status = status, !.draft = draft, !.source = source,
              !.candidates = <<>>,
              !.applied = IF status = "draft" THEN draft ELSE @,
              !.foodFormMode = IF status = "draft" THEN "summary" ELSE @,
              !.modal = CASE out.cancelled -> "closed"
                          [] status = "not-found" -> "not-found"
                          [] status = "threw" -> "Lookup failed"
                          [] OTHER -> "closed"]

\* handleLookup up to lookupBarcode's first request: the barcode's check and
\* the saved foods that carry the barcode
StartLookup ==
  /\ probe.kind = "barcode"
  /\ probeOut.pc = "scan"
  /\ LET Carries(food) == food.id \in probe.barcoded
         Begun(savedMatches) ==
           IF ~probe.valid
             THEN [probeOut EXCEPT !.pc = "done", !.modal = "Enter a valid barcode"]
           ELSE IF Len(savedMatches) = 1
             THEN Returned(probeOut, "draft", createDraftFromFood(savedMatches[1]), "saved")
           ELSE IF Len(savedMatches) > 1
             THEN [probeOut EXCEPT !.pc = "choose-saved", !.modal = "lookup",
                                   !.candidates = savedMatches]
           ELSE [probeOut EXCEPT !.pc = "off", !.modal = "lookup"]
     IN probeOut' = Begun(SelectSeq(foodCache, Carries))
  /\ AppUnchanged

\* the "Choose a saved food" dialog: a choice, or its dismissal
ChooseSaved ==
  /\ probeOut.pc = "choose-saved"
  /\ \/ \E i \in 1..Len(probeOut.candidates) :
          probeOut' = Returned(probeOut, "draft", createDraftFromFood(probeOut.candidates[i]),
                               "saved")
     \/ probeOut' = Returned(probeOut, "cancelled", Null, "none")
  /\ AppUnchanged

\* lookupOpenFoodFacts answers
OffAnswers ==
  /\ probeOut.pc = "off"
  /\ \E response \in OffResponses :
       LET Answered(offDraft) ==
             IF offDraft # Null
               THEN Returned([probeOut EXCEPT !.off = "draft"], "draft", offDraft,
                             "Open Food Facts")
             ELSE IF ~probe.usdaKey
               THEN Returned([probeOut EXCEPT !.off = "no draft", !.usda = "no key"],
                             "threw", Null, "none")
             ELSE [probeOut EXCEPT !.off = "no draft", !.pc = "usda"]
       IN probeOut' = IF ~response.ok
                        THEN Returned([probeOut EXCEPT !.off = "failed"], "threw", Null, "none")
                        ELSE Answered(lookupOpenFoodFacts(response.data))
  /\ AppUnchanged

\* searchUsdaFoodsByBarcode answers
UsdaAnswers ==
  /\ probeOut.pc = "usda"
  /\ \E response \in UsdaResponses :
       LET IsGtin(r) == r.gtin
           Picked(candidates) ==
             IF Len(candidates) > 1
               THEN [probeOut EXCEPT !.usda = "results", !.pc = "choose-product",
                                     !.candidates = candidates]
               ELSE Returned([probeOut EXCEPT !.usda = "results"], "draft",
                             createUsdaDraftFromResult(candidates[1].result), "USDA")
           Filtered(usdaResults, gtinMatches) ==
             IF usdaResults = <<>>
               THEN Returned([probeOut EXCEPT !.usda = "no results"], "not-found", Null, "none")
               ELSE Picked(IF gtinMatches # <<>> THEN gtinMatches ELSE usdaResults)
       IN probeOut' = IF ~response.ok
                        THEN Returned([probeOut EXCEPT !.usda = "failed"], "threw", Null, "none")
                        ELSE Filtered(response.results, SelectSeq(response.results, IsGtin))
  /\ AppUnchanged

\* the "Choose a product" dialog: a choice, or its dismissal
ChooseProduct ==
  /\ probeOut.pc = "choose-product"
  /\ \/ \E i \in 1..Len(probeOut.candidates) :
          probeOut' = Returned(probeOut, "draft",
                               createUsdaDraftFromResult(probeOut.candidates[i].result), "USDA")
     \/ probeOut' = Returned(probeOut, "cancelled", Null, "none")
  /\ AppUnchanged

\* the "Cancel" button of the modal while it shows "Looking up ...": close()
CancelLookup ==
  /\ probeOut.pc \in {"off", "usda"}
  /\ ~probeOut.cancelled
  /\ probeOut' = [probeOut EXCEPT !.cancelled = TRUE, !.modal = "closed"]
  /\ AppUnchanged

NextLookup ==
  \/ StartLookup
  \/ ChooseSaved
  \/ OffAnswers
  \/ UsdaAnswers
  \/ ChooseProduct
  \/ CancelLookup

SpecLookup == InitLookup /\ [][NextLookup]_vars

\* ------------------------------------------------------------------ inactivity sign-out
\* A fourth specification follows the session: state.user, state.inactivityTimer
\* and the browser's pending timeouts.  Time is counted in steps of ten
\* minutes and a timeout runs when it is due.  probeOut is the session: user,
\* inactivityTimer (0 for null), pending (the timeouts set and neither run nor
\* cleared, each with its id and the time it is due), signOut (whether a
\* signOut(auth) has been called and onAuthStateChanged has not yet answered
\* it, and who called it), and the history fields lastEvent (the time of the
\* latest click, keydown, touchstart or scroll of a signed-in user, or of the
\* sign-in) and fired (when the timeout's callback last ran and how long the
\* user had been idle then).

\* INACTIVITY_LIMIT_MS, in steps of ten minutes
InactivityLimit == 3

\* the time a behaviour runs for, in steps of ten minutes
MaxTime == 7

\* the calls of setTimeout a behaviour may hold
MaxTimers == 4

InitSession ==
  /\ probe = [kind |-> "session"]
  /\ probeOut = [user |-> FALSE, inactivityTimer |-> 0, pending |-> {}, now |-> 0,
                 nextTimer |-> 1, signOut |-> "none", navMenuOpen |-> FALSE,
                 lastEvent |-> NoNum, fired |-> Null]
  /\ foodCache = <<>>
  /\ events = 0
  /\ entries = <<>>
  /\ nextId = FirstNewId
  /\ view = "dashboard"
  /\ form = BlankForm
  /\ prefillFoodId = NoId
  /\ foodForm = NoFoodForm
  /\ dashboard = NoDashboard
  /\ alertMsg = "none"
  /\ submitted = Null

\* window.clearTimeout(id): the timeouts still pending
clearTimeout(pending, id) == { t \in pending : t.id # id }

resetInactivityTimer(s) ==
  IF ~s.user THEN s
  ELSE [s EXCEPT !.pending = clearTimeout(@, s.inactivityTimer)
                               \cup {[id |-> s.nextTimer, due |-> s.now + InactivityLimit]},
                 !.inactivityTimer = s.nextTimer,
                 !.nextTimer = @ + 1]

\* a user event at the present time, as the history field keeps it
Noted(s) == IF s.user THEN [s EXCEPT !.lastEvent = s.now] ELSE s

\* onAuthStateChanged with a user: the sign-in
AuthSignedIn ==
  /\ ~probeOut.user
  /\ probeOut.signOut = "none"
  /\ probeOut.nextTimer <= MaxTimers
  /\ probeOut' = resetInactivityTimer(Noted([probeOut EXCEPT !.user = TRUE]))
  /\ AppUnchanged

\* a click, keydown, touchstart or scroll that reaches the document's listener
Interaction ==
  /\ probeOut.nextTimer <= MaxTimers
  /\ \E evt \in {"click", "keydown", "touchstart", "scroll"} :
       probeOut' = resetInactivityTimer(Noted(probeOut))
  /\ AppUnchanged

\* a click on #nav-menu-toggle: the handler on the app element stops the
\* event, which so never reaches the document's listener
MenuToggleClick ==
  /\ probeOut.user
  /\ probeOut' = Noted([probeOut EXCEPT !.navMenuOpen = ~@])
  /\ AppUnchanged

\* a click on #nav-signout: signOut(auth) is called, the menu closes and the
\* click goes on to the document's listener
SignOutClick ==
  /\ probeOut.user
  /\ probeOut.nextTimer <= MaxTimers
  /\ probeOut' = resetInactivityTimer(
                   Noted([probeOut EXCEPT !.navMenuOpen = FALSE,
                                          !.signOut = IF @ = "none" THEN "button" ELSE @]))
  /\ AppUnchanged

\* a pending timeout is due: its callback calls signOut(auth) and waits
InactivityTimeout ==
  /\ \E t \in probeOut.pending :
       /\ t.due <= probeOut.now
       /\ probeOut' =
            [probeOut EXCEPT !.pending = @ \ {t},
                             !.signOut = IF @ = "none" THEN "timer" ELSE @,
                             !.fired = [at |-> probeOut.now,
                                        idle |-> probeOut.now - probeOut.lastEvent]]
  /\ AppUnchanged

\* onAuthStateChanged with null, after a signOut(auth)
AuthSignedOut ==
  /\ probeOut.signOut # "none"
  /\ probeOut' = [probeOut EXCEPT !.user = FALSE,
                                  !.pending = clearTimeout(@, probeOut.inactivityTimer),
                                  !.inactivityTimer = 0,
                                  !.navMenuOpen = FALSE,
                                  !.signOut = "none"]
  /\ AppUnchanged

\* ten minutes pass; a timeout that is due runs first
TenMinutes ==
  /\ probeOut.now < MaxTime
  /\ \A t \in probeOut.pending : t.due > probeOut.now
  /\ probeOut' = [probeOut EXCEPT !.now = @ + 1]
  /\ AppUnchanged

NextSession ==
  \/ AuthSignedIn
  \/ Interaction
  \/ MenuToggleClick
  \/ SignOutClick
  \/ InactivityTimeout
  \/ AuthSignedOut
  \/ TenMinutes

SpecSession == InitSession /\ [][NextSession]_vars

\* ------------------------------------------------------------------ submits in flight
\* A fifth specification follows the submit handler of one add-entry form
\* through its awaits.  The form holds a typed food name and nothing stops a
\* second submit event while an earlier one waits.  probe is the setting (the
\* food cache the form opened with); probeOut.calls are the calls of the
\* handler, each with the await it stands at ("food" for upsertFood's addDoc,
\* "entry" for the entry's addDoc, "done"), its food name and its payload.

\* the submit events one form may get
MaxSubmits == 2

InitSubmit ==
  /\ foodCache \in SeedCatalogs
  /\ probe = [kind |-> "submit", cache |-> foodCache]
  /\ probeOut = [calls |-> <<>>]
  /\ \E name \in {Oats.name, Tahini.name, NewFoodName}, calories \in {0, 9900} :
       form = [BlankForm EXCEPT !.typedName = name, !.perServing.calories = calories]
  /\ events = 0
  /\ entries = <<>>
  /\ nextId = FirstNewId
  /\ view = "entry"
  /\ prefillFoodId = NoId
  /\ foodForm = NoFoodForm
  /\ dashboard = NoDashboard
  /\ alertMsg = "none"
  /\ submitted = Null

\* a submit event: the handler runs up to its first await
SubmitDispatched ==
  /\ view = "entry"
  /\ Len(probeOut.calls) < MaxSubmits
  /\ SubmitAlert(form) = "none"
  /\ LET foodName == TrimSeq(form.typedName)
         existingFood ==
           FindFood(foodCache,
                    [i \in 1..Len(foodCache) |->
                       LowerSeq(TrimSeq(foodCache[i].name)) = LowerSeq(foodName)])
     IN probeOut' =
          [calls |-> Append(probeOut.calls,
                            [pc |-> IF existingFood = Null THEN "food" ELSE "entry",
                             foodName |-> foodName,
                             payload |-> EntryPayload(form, foodName, NoId),
                             perServing |-> form.perServing])]
  /\ UNCHANGED <<foodCache, events, entries, nextId, view, form, prefillFoodId, foodForm,
                 dashboard, alertMsg, submitted, probe>>

\* upsertFood's addDoc answers: the new food joins the cache and the handler
\* goes on to write the entry
FoodAdded ==
  /\ \E c \in 1..Len(probeOut.calls) :
       /\ probeOut.calls[c].pc = "food"
       /\ foodCache' = upsertFood(foodCache,
                                  [id |-> NoId, name |-> probeOut.calls[c].foodName,
                                   caloriesPerServing |-> probeOut.calls[c].perServing.calories,
                                   carbsPerServing |-> probeOut.calls[c].perServing.carbs,
                                   proteinPerServing |-> probeOut.calls[c].perServing.protein,
                                   favorite |-> FALSE, servingSize |-> NoNum,
                                   servingSizeUnit |-> NoUnit, servingSizeGrams |-> NoNum],
                                  nextId)
       /\ probeOut' = [probeOut EXCEPT !.calls[c].pc = "entry"]
  /\ nextId' = nextId + 1
  /\ UNCHANGED <<events, entries, view, form, prefillFoodId, foodForm, dashboard, alertMsg,
                 submitted, probe>>

\* the entry's addDoc answers: the entry is stored and the handler shows the
\* dashboard
EntryAdded ==
  /\ \E c \in 1..Len(probeOut.calls) :
       /\ probeOut.calls[c].pc = "entry"
       /\ entries' = WroteEntry(entries, [probeOut.calls[c].payload EXCEPT !.id = nextId])
       /\ probeOut' = [probeOut EXCEPT !.calls[c].pc = "done"]
  /\ nextId' = nextId + 1
  /\ view' = "dashboard"
  /\ form' = BlankForm
  /\ foodForm' = NoFoodForm
  /\ dashboard' = renderDashboard(entries')
  /\ UNCHANGED <<foodCache, events, prefillFoodId, alertMsg, submitted, probe>>

NextSubmit == SubmitDispatched \/ FoodAdded \/ EntryAdded

SpecSubmit == InitSubmit /\ [][NextSubmit]_vars

\* ------------------------------------------------------------------ scan modal's camera
\* A sixth specification follows the camera of the barcode scan modal up to
\* the detection of a barcode (where the barcode lookup above begins).
\* probeOut is the modal: overlay (whether it is attached to the page), shown
\* (what the modal holds: "camera", "manual" for the manual-entry form, or a
\* message), the variables currentStream, controls and timeoutId (0 for
\* null), the browser's side (streams whose tracks are live, decoders that
\* run, timers that are pending), calls (the calls of startScanning, each
\* with the await it stands at: "getUserMedia", "play", "decode", or "done")
\* and next (the next id of a stream, decoder or timer).

\* the calls of startScanning a behaviour may hold
MaxScans == 2

\* startScanning up to its first await, on the modal s
startScanning(s) ==
  [s EXCEPT !.timers = @ \ {s.timeoutId}, !.timeoutId = 0,
            !.decoders = @ \ {s.controls}, !.controls = 0,
            !.streams = @ \ {s.currentStream}, !.currentStream = 0,
            !.shown = "camera",
            !.calls = Append(@, "getUserMedia")]

InitScan ==
  /\ probe = [kind |-> "camera"]
  /\ probeOut = startScanning([overlay |-> TRUE, shown |-> "none", currentStream |-> 0,
                               controls |-> 0, timeoutId |-> 0, streams |-> {},
                               decoders |-> {}, timers |-> {}, calls |-> <<>>, next |-> 1])
  /\ foodCache = <<>>
  /\ events = 0
  /\ entries = <<>>
  /\ nextId = FirstNewId
  /\ view = "food"
  /\ form = BlankForm
  /\ prefillFoodId = NoId
  /\ foodForm = NoFoodForm
  /\ dashboard = NoDashboard
  /\ alertMsg = "none"
  /\ submitted = Null

stopTracks(s) ==
  [s EXCEPT !.timers = @ \ {s.timeoutId}, !.timeoutId = 0,
            !.decoders = @ \ {s.controls}, !.controls = 0,
            !.streams = @ \ {s.currentStream}, !.currentStream = 0]

\* getUserMedia answers a call of startScanning: with a stream, which becomes
\* currentStream, or with a refusal, which the catch block reports
CameraAnswers ==
  /\ \E c \in 1..Len(probeOut.calls) :
       /\ probeOut.calls[c] = "getUserMedia"
       /\ \/ probeOut' = [probeOut EXCEPT !.streams = @ \cup {probeOut.next},
                                          !.currentStream = probeOut.next,
                                          !.next = @ + 1,
                                          !.calls[c] = "play"]
          \/ probeOut' = [probeOut EXCEPT !.shown = "Camera access blocked",
                                          !.calls[c] = "done"]
  /\ AppUnchanged

\* videoEl.play() answers: the decoder is asked for
VideoPlays ==
  /\ \E c \in 1..Len(probeOut.calls) :
       /\ probeOut.calls[c] = "play"
       /\ probeOut' = [probeOut EXCEPT !.calls[c] = "decode"]
  /\ AppUnchanged

\* decodeFromVideoDevice answers: its controls are kept and the 25-second
\* timeout is set
DecoderStarted ==
  /\ \E c \in 1..Len(probeOut.calls) :
       /\ probeOut.calls[c] = "decode"
       /\ probeOut' = [probeOut EXCEPT !.decoders = @ \cup {probeOut.next},
                                       !.controls = probeOut.next,
                                       !.timers = @ \cup {probeOut.next + 1},
                                       !.timeoutId = probeOut.next + 1,
                                       !.next = @ + 2,
                                       !.calls[c] = "done"]
  /\ AppUnchanged

\* a 25-second timeout runs
ScanTimeout ==
  /\ \E t \in probeOut.timers :
       probeOut' = [stopTracks([probeOut EXCEPT !.timers = @ \ {t}])
                      EXCEPT !.shown = "No barcode detected"]
  /\ AppUnchanged

\* "Cancel", or a click beside the modal: close()
CloseModal ==
  /\ probeOut.overlay
  /\ probeOut' = [stopTracks(probeOut) EXCEPT !.overlay = FALSE]
  /\ AppUnchanged

\* "Enter barcode number"
openManualEntry ==
  /\ probeOut.overlay
  /\ probeOut.shown \in {"camera", "No barcode detected", "Camera access blocked"}
  /\ probeOut' = [stopTracks(probeOut) EXCEPT !.shown = "manual"]
  /\ AppUnchanged

\* "Back to camera" and Escape of the manual-entry form, "Try again" of the
\* message that no barcode was detected
ScanAgain ==
  /\ probeOut.overlay
  /\ probeOut.shown \in {"manual", "No barcode detected"}
  /\ Len(probeOut.calls) < MaxScans
  /\ probeOut' = startScanning(probeOut)
  /\ AppUnchanged

NextScan ==
  \/ CameraAnswers
  \/ VideoPlays
  \/ DecoderStarted
  \/ ScanTimeout
  \/ CloseModal
  \/ openManualEntry
  \/ ScanAgain

SpecScan == InitScan /\ [][NextScan]_vars

\* ------------------------------------------------------------------ properties

\* servings * perServing for each of the three macros
Scaled3(servings, calories, carbs, protein) ==
  [calories |-> TimesCenti(servings, calories), carbs |-> TimesCenti(servings, carbs),
   protein |-> TimesCenti(servings, protein)]

RECURSIVE SumOfRows(_, _)
\* the sum of one macro over the first n dashboard rows
SumOfRows(rows, n) ==
  IF n = 0 THEN [calories |-> Zero, carbs |-> Zero, protein |-> Zero]
  ELSE [calories |-> Plus(SumOfRows(rows, n - 1).calories, rows[n].calories),
        carbs |-> Plus(SumOfRows(rows, n - 1).carbs, rows[n].carbs),
        protein |-> Plus(SumOfRows(rows, n - 1).protein, rows[n].protein)]

\* the totals are servings * perServing in the live entry form, in every
\* dashboard row and in the daily sum
TotalsFormula ==
  /\ view = "entry" =>
       form.totals = Scaled3(form.servings, form.perServing.calories,
                             form.perServing.carbs, form.perServing.protein)
  /\ view = "dashboard" =>
       /\ Len(dashboard.rows) = Len(entries)
       /\ \A i \in 1..Len(entries) :
            dashboard.rows[i] = Scaled3(OfCenti(entries[i].servings),
                                        entries[i].caloriesPerServing,
                                        entries[i].carbsPerServing,
                                        entries[i].proteinPerServing)
       /\ dashboard.totals = SumOfRows(dashboard.rows, Len(dashboard.rows))

\* in grams mode servings is grams / servingSizeGrams, or 0 while grams is unset
GramsModeServings ==
  (view = "entry" /\ form.useGramsInput) =>
    form.servings = IF Truthy(form.grams) THEN Frac(form.grams, form.servingSizeGrams)
                    ELSE Zero

\* in servings mode servings is the servings value last entered
ServingsModeServings ==
  (view = "entry" /\ ~form.useGramsInput) => form.servings = form.servingsEntered

\* C1: the totals shown in the entry form, in the dashboard rows and in the
\* daily sum are servings * perServing for calories, carbs and protein, and in
\* every entry-form state the mode only decides how servings is derived: the
\* last entered servings value in servings mode, grams / servingSizeGrams (0
\* while grams is unset) in grams mode.
C1_TotalsAndServings == TotalsFormula /\ GramsModeServings /\ ServingsModeServings

\* C2: no step taken on the foods list or in the food form (saving an edited
\* food, toggling a favorite, deleting a food) changes a stored entry, and an
\* entry opened for edit shows the name and the per-serving values of its own
\* stored record, whatever the food of that name now holds.
C2_SnapshotSemantics ==
  [][ /\ (view \in {"foods", "food"} => entries' = entries)
      /\ (view = "dashboard" /\ view' = "entry" /\ form'.entryId # NoId =>
            \E i \in 1..Len(entries) :
              /\ entries[i].id = form'.entryId
              /\ form'.typedName = entries[i].foodName
              /\ form'.perServing = [calories |-> entries[i].caloriesPerServing,
                                     carbs |-> entries[i].carbsPerServing,
                                     protein |-> entries[i].proteinPerServing]) ]_vars

\* an entry is open for edit with the values it was submitted with, while the
\* food it was taken from has since been given other per-serving values
C2_Witness ==
  /\ view = "entry"
  /\ form.entryId # NoId
  /\ form.selectedFood # Null
  /\ submitted # Null
  /\ submitted.id = form.entryId
  /\ submitted.food # Null
  /\ submitted.food.id = form.selectedFood.id
  /\ PerServingOf(submitted.food) = form.perServing
  /\ PerServingOf(form.selectedFood) # form.perServing

\* C3: while a food is selected in the entry form, the form is in grams mode
\* exactly when the food has no true serving and its gram value is a positive
\* number.
C3_GramsModeIff ==
  (view = "entry" /\ form.selectedFood # Null) =>
    (form.useGramsInput <=>
       /\ ~hasTrueServing(form.selectedFood)
       /\ getServingSizeGramsValue(form.selectedFood) # NoNum
       /\ getServingSizeGramsValue(form.selectedFood) > 0)

\* an entry loaded for edit whose food puts the form in grams mode
C3_Witness ==
  /\ view = "entry"
  /\ form.entryId # NoId
  /\ form.selectedFood # Null
  /\ form.useGramsInput
  /\ ~hasTrueServing(form.selectedFood)

\* C4: an entry that was saved through the form and whose food is unchanged
\* opens for edit in the mode it was entered in and shows the quantity that
\* was entered.
C4_EditRoundTrip ==
  [][ (/\ view = "dashboard"
       /\ view' = "entry"
       /\ submitted # Null
       /\ form'.entryId = submitted.id
       /\ submitted.food # Null
       /\ \E i \in 1..Len(foodCache) : foodCache[i] = submitted.food)
      => (/\ form'.useGramsInput = submitted.useGramsInput
          /\ ShownQuantity(form') = submitted.quantity) ]_vars

\* what the submit handler rejects: a blank food name, grams mode without a
\* positive grams value, grams mode without a conversion constant
Rejected(f) ==
  \/ TrimSeq(f.typedName) = <<>>
  \/ f.useGramsInput /\ (f.grams = NoNum \/ f.grams <= 0)
  \/ f.useGramsInput /\ (f.servingSizeGrams = NoNum \/ f.servingSizeGrams <= 0)

\* C5: a submit of a form with a blank food name, or in grams mode without a
\* positive grams value or without a conversion constant, raises a message,
\* writes no entry and no food, and leaves the form as it was.
C5_RejectedSubmitWritesNothing ==
  [][ (Submit /\ Rejected(form)) =>
        (/\ alertMsg' # "none"
         /\ UNCHANGED <<foodCache, entries, nextId, view, form, dashboard>>) ]_vars

\* a submit in grams mode was rejected for want of the grams eaten
C5_Witness ==
  /\ view = "entry"
  /\ alertMsg = "Enter the grams eaten."
  /\ form.useGramsInput
  /\ ~Truthy(form.grams)

\* C6: whenever the entry form is in grams mode its conversion constant
\* servingSizeGrams is set and positive, and the submit handler never raises
\* "Serving size grams are missing for this food.".
C6_GramsModeHasConstant ==
  /\ (view = "entry" /\ form.useGramsInput) =>
       (form.servingSizeGrams # NoNum /\ form.servingSizeGrams > 0)
  /\ alertMsg # "Serving size grams are missing for this food."

\* a new entry in grams mode with the grams typed
C6_Witness ==
  /\ view = "entry"
  /\ form.entryId = NoId
  /\ form.useGramsInput
  /\ Truthy(form.grams)

\* C7: hasTrueServing of a food is true exactly when resolveServingAnchor of
\* the food's servingSizeGrams, servingSize and servingSizeUnit is not null.
C7_TrueServingIffAnchor ==
  (probe # Null /\ probe.kind = "anchor" /\ probeOut # Null) =>
    (probeOut.hasTrueServing <=> probeOut.foodAnchor # Null)

\* a food without servingSizeGrams that has a true serving by size and unit
C7_Witness ==
  /\ probe # Null
  /\ probe.kind = "anchor"
  /\ probeOut # Null
  /\ probe.options.servingSizeGrams = NoNum
  /\ probeOut.hasTrueServing
  /\ probeOut.foodAnchor # Null

\* the spellings of each kind among UnitSpellings
SentinelSpellings == {"per100g", " PER100G "}
GramsSpellings == {"g", "G", " g ", "gram", "Grams"}
MillilitresSpellings == {"ml", " ML", "milliliters", "Millilitre"}

\* the anchor of the first "<number> g|ml" of a label of AnchorProbes, when
\* its amount is above 0
LabelAnchor(label) ==
  CASE label = <<"1", " ", "c", "u", "p", " ", "(", "2", "4", "0", " ", "M", "L", ")">>
         -> [amount |-> 24000, unit |-> "ml", label |-> <<"2", "4", "0", " ", "m", "l">>]
    [] label = <<"2", ",", "5", "g">>
         -> [amount |-> 250, unit |-> "g", label |-> <<"2", ".", "5", " ", "g">>]
    [] OTHER -> Null

\* the "<amount> g" and "<amount> ml" labels of the amounts of AnchorProbes
AmountLabel(amount, unit) ==
  (IF amount = 4500 THEN <<"4", "5">> ELSE <<"3", "0">>)
    \o (IF unit = "g" THEN <<" ", "g">> ELSE <<" ", "m", "l">>)

\* C8: resolveServingAnchor gives, in this order: null for the per-100g
\* sentinel unit; else the grams anchor of a positive servingSizeGrams; else
\* the anchor of a positive servingSize with a grams or millilitres spelling;
\* else the anchor of the first "<number> g|ml" of the label when its amount
\* is above 0; else null.  It has a result for every input.
C8_PriorityOrder ==
  (probe # Null /\ probe.kind = "anchor" /\ probeOut # Null) =>
    probeOut.anchor =
      IF probe.options.servingSizeUnit \in SentinelSpellings THEN Null
      ELSE IF probe.options.servingSizeGrams # NoNum /\ probe.options.servingSizeGrams > 0
        THEN [amount |-> probe.options.servingSizeGrams, unit |-> "g",
              label |-> AmountLabel(probe.options.servingSizeGrams, "g")]
      ELSE IF /\ probe.options.servingSize # NoNum
              /\ probe.options.servingSize > 0
              /\ probe.options.servingSizeUnit \in GramsSpellings
        THEN [amount |-> probe.options.servingSize, unit |-> "g",
              label |-> AmountLabel(probe.options.servingSize, "g")]
      ELSE IF /\ probe.options.servingSize # NoNum
              /\ probe.options.servingSize > 0
              /\ probe.options.servingSizeUnit \in MillilitresSpellings
        THEN [amount |-> probe.options.servingSize, unit |-> "ml",
              label |-> AmountLabel(probe.options.servingSize, "ml")]
      ELSE LabelAnchor(probe.options.servingLabel)

\* servingSizeGrams wins over a servingSize in millilitres and over a label
C8_Witness ==
  /\ probe # Null
  /\ probe.kind = "anchor"
  /\ probeOut # Null
  /\ probe.options.servingSizeGrams = 4500
  /\ probe.options.servingSize = 3000
  /\ probe.options.servingSizeUnit = " ML"
  /\ probe.options.servingLabel = <<"2", ",", "5", "g">>
  /\ probeOut.anchor = [amount |-> 4500, unit |-> "g", label |-> <<"4", "5", " ", "g">>]

\* C9: a selected food whose servingSizeUnit is the per-100g sentinel has no
\* true serving and puts the entry form in grams mode with the conversion
\* constant 100 (servings = grams / 100), whatever servingSizeGrams and
\* servingSize it stores.
C9_Per100gConstant ==
  (/\ view = "entry"
   /\ form.selectedFood # Null
   /\ form.selectedFood.servingSizeUnit \in SentinelSpellings) =>
    /\ ~hasTrueServing(form.selectedFood)
    /\ form.useGramsInput
    /\ form.servingSizeGrams = 10000
    /\ form.servings = IF Truthy(form.grams) THEN Frac(form.grams, 10000) ELSE Zero

\* a per-100g food that stores 45 as its servingSizeGrams is selected and
\* grams are typed
C9_Witness ==
  /\ view = "entry"
  /\ form.selectedFood # Null
  /\ form.selectedFood.servingSizeUnit = " PER100G "
  /\ form.selectedFood.servingSizeGrams = 4500
  /\ Truthy(form.grams)
  /\ form.servings = Frac(form.grams, 10000)

\* C10: a draft built from a USDA result whose servingSizeUnit is not a grams
\* unit is on the per-100g basis: the values are not scaled, servingSizeUnit
\* is the per-100g sentinel and servingSizeGrams is 100.
C10_UsdaAnchorNeedsGrams ==
  (/\ probe # Null
   /\ probe.kind = "usda"
   /\ probeOut # Null
   /\ probe.result.servingSizeUnit \notin GramsSpellings) =>
    /\ probeOut.draft.servingSizeUnit = PER_100G_UNIT
    /\ probeOut.draft.servingSizeGrams = 10000
    /\ probeOut.draft.caloriesPerServing =
         IF probe.result.calories = NoNum THEN 0
         ELSE MathRound(OfCenti(probe.result.calories))

\* C11: a draft built from a USDA result, from an Open Food Facts product or
\* from a saved food has calories, carbs and protein per serving of at least
\* 0, and so has the food document that "Save food" writes from the draft.
C11_DraftMacrosNonNegative ==
  (/\ probe # Null
   /\ probe.kind \in {"usda", "off", "saved"}
   /\ probeOut # Null
   /\ probeOut.draft # Null) =>
    /\ probeOut.draft.caloriesPerServing >= 0
    /\ probeOut.draft.carbsPerServing >= 0
    /\ probeOut.draft.proteinPerServing >= 0
    /\ probeOut.saved.caloriesPerServing >= 0
    /\ probeOut.saved.carbsPerServing >= 0
    /\ probeOut.saved.proteinPerServing >= 0

\* v, a number of hundredths, is the multiple of step nearest to n / d
\* hundredths, the upper one of two that are equally near
RoundsTo(v, step, n, d) ==
  /\ v % step = 0
  /\ (2 * v - step) * d <= 2 * n
  /\ 2 * n < (2 * v + step) * d

\* the grams the USDA draft is anchored to: the servingSize of a result that
\* has one above 0 with a grams or millilitres unit, else NoNum
UsdaAnchorAmount(result) ==
  IF /\ result.servingSize # NoNum
     /\ result.servingSize > 0
     /\ result.servingSizeUnit \in GramsSpellings \cup MillilitresSpellings
    THEN result.servingSize ELSE NoNum

\* C12: the USDA draft holds the per-100g values times anchor.amount / 100
\* (times 1 without an anchor), calories rounded to an integer, carbs and
\* protein to one decimal, 0 for a null value; servingSizeUnit is "g" and
\* servingSizeGrams the anchor's amount exactly when there is an anchor, else
\* the per-100g sentinel and 100.  45 g with 250 / 30 / 5 gives 113, 13.5, 2.3.
C12_UsdaScaling ==
  (probe # Null /\ probe.kind = "usda" /\ probeOut # Null) =>
    LET result == probe.result
        draft == probeOut.draft
        amount == IF UsdaAnchorAmount(result) # NoNum THEN UsdaAnchorAmount(result) ELSE 10000
    IN /\ IF result.calories = NoNum THEN draft.caloriesPerServing = 0
          ELSE RoundsTo(draft.caloriesPerServing, 100, result.calories * amount, 10000)
       /\ IF result.carbs = NoNum THEN draft.carbsPerServing = 0
          ELSE RoundsTo(draft.carbsPerServing, 10, result.carbs * amount, 10000)
       /\ IF result.protein = NoNum THEN draft.proteinPerServing = 0
          ELSE RoundsTo(draft.proteinPerServing, 10, result.protein * amount, 10000)
       /\ draft.servingSizeUnit =
            IF UsdaAnchorAmount(result) # NoNum THEN "g" ELSE PER_100G_UNIT
       /\ draft.servingSizeGrams = amount
       /\ (/\ result.calories = 25000
           /\ result.carbs = 3000
           /\ result.protein = 500
           /\ UsdaAnchorAmount(result) = 4500) =>
            /\ draft.caloriesPerServing = 11300
            /\ draft.carbsPerServing = 1350
            /\ draft.proteinPerServing = 230

\* the draft of a result with a 45 g serving and 250 / 30 / 5 per 100 g
C12_Witness ==
  /\ probe # Null
  /\ probe.kind = "usda"
  /\ probeOut # Null
  /\ probe.result.servingSize = 4500
  /\ probe.result.servingSizeUnit = "Grams"
  /\ probe.result.calories = 25000
  /\ probe.result.carbs = 3000
  /\ probe.result.protein = 500
  /\ probeOut.draft.caloriesPerServing = 11300
  /\ probeOut.draft.carbsPerServing = 1350
  /\ probeOut.draft.proteinPerServing = 230
  /\ probeOut.draft.servingSizeGrams = 4500

\* the serving amount of a product of OffProbes: that of the serving-size
\* text when it names grams or millilitres, else the serving quantity when
\* it is above 0 and its unit is g or ml, else NoNum
OffServingAmount(product) ==
  IF product.serving_size = <<"4", "5", " ", "g">> THEN 4500
  ELSE IF product.serving_size =
            <<"1", " ", "c", "u", "p", " ", "(", "2", "4", "0", " ", "M", "L", ")">> THEN 24000
  ELSE IF /\ product.serving_quantity # NoNum
          /\ product.serving_quantity > 0
          /\ product.serving_unit \in {"g", "G", "ml"}
    THEN product.serving_quantity
  ELSE NoNum

\* a nutriment of a product in hundredths, as a fraction: the field in kcal
\* (or grams) when present, else the field in kJ divided by 4.184, else Null
OffValue(plain, kj) ==
  IF plain # NoNum THEN Frac(plain, 1)
  ELSE IF kj # NoNum THEN Frac(kj * 125, 523)
  ELSE Null

\* v is what the draft holds for a macro given per serving or per 100 g, each
\* a fraction or Null: the serving value if present, else the 100 g value
\* times amount / 100, floored at 0 and rounded to a multiple of step
OffMacro(v, step, perServing, per100g, amount) ==
  LET Rounded(q) == IF q.num < 0 THEN v = 0 ELSE RoundsTo(v, step, q.num, q.den)
  IN IF perServing # Null THEN Rounded(perServing)
     ELSE Rounded(Frac(per100g.num * amount, per100g.den * 10000))

\* C13: for a product that Open Food Facts found, lookupOpenFoodFacts gives no
\* draft when the product has no resolvable serving size, whatever nutrients
\* it has, and when calories, protein or carbs is given neither per serving
\* nor per 100 g; otherwise it gives a draft with, for each macro, the
\* per-serving value when present and else the 100 g value times
\* servingAmount / 100.
C13_OffDraftOrNone ==
  (probe # Null /\ probe.kind = "off" /\ probeOut # Null /\ probe.data.status = 1) =>
    LET n == probe.data.product.nutriments
        amount == OffServingAmount(probe.data.product)
        draft == probeOut.draft
    IN IF \/ amount = NoNum
          \/ /\ OffValue(n.energy_kcal_serving, n.energy_kj_serving) = Null
             /\ OffValue(n.energy_kcal_100g, n.energy_kj_100g) = Null
          \/ n.proteins_serving = NoNum /\ n.proteins_100g = NoNum
          \/ n.carbohydrates_serving = NoNum /\ n.carbohydrates_100g = NoNum
         THEN draft = Null
         ELSE /\ draft # Null
              /\ OffMacro(draft.caloriesPerServing, 100,
                          OffValue(n.energy_kcal_serving, n.energy_kj_serving),
                          OffValue(n.energy_kcal_100g, n.energy_kj_100g), amount)
              /\ OffMacro(draft.proteinPerServing, 10, OffValue(n.proteins_serving, NoNum),
                          OffValue(n.proteins_100g, NoNum), amount)
              /\ OffMacro(draft.carbsPerServing, 10, OffValue(n.carbohydrates_serving, NoNum),
                          OffValue(n.carbohydrates_100g, NoNum), amount)

\* a product with all three macros per 100 g and a serving quantity in
\* ounces, but no serving-size text, gave no draft
C13_Witness ==
  /\ probe # Null
  /\ probe.kind = "off"
  /\ probeOut # Null
  /\ probe.data.status = 1
  /\ probe.data.product.serving_size = NoLabel
  /\ probe.data.product.serving_quantity = 3000
  /\ probe.data.product.serving_unit = "oz"
  /\ probe.data.product.nutriments.energy_kcal_100g = 25000
  /\ probe.data.product.nutriments.proteins_100g = 500
  /\ probe.data.product.nutriments.carbohydrates_100g = 3000
  /\ probeOut.draft = Null

\* C14: the scan modal shows "Lookup failed" only after a request to Open
\* Food Facts or to USDA failed (a rejected fetch or a response that is not
\* ok), so never because a service answered with too little for a draft; and
\* lookupBarcode returns 'not-found' exactly when no saved food carries the
\* barcode, Open Food Facts gave no draft and the USDA search gave no results.
C14_ErrorOnlyOnTransportFailure ==
  (probe # Null /\ probe.kind = "barcode" /\ probeOut.pc = "done" /\ probe.valid) =>
    /\ probeOut.modal = "Lookup failed" =>
         (probeOut.off = "failed" \/ probeOut.usda = "failed")
    /\ probeOut.status = "not-found" <=>
         /\ \A i \in 1..Len(foodCache) : foodCache[i].id \notin probe.barcoded
         /\ probeOut.off = "no draft"
         /\ probeOut.usda = "no results"

\* the label says "Per 100 g" exactly when there is no anchor, and otherwise
\* names the anchor's serving
SaysBasis(label, anchor) ==
  IF anchor = Null THEN label.per = "100 g"
  ELSE label.per = "serving" /\ label.label = anchor.label

\* C15: the basis label of a food in the foods list, in the entry form's
\* picker and macro editor, and of a draft on the add-food summary card, says
\* "Per 100 g" exactly when resolveServingAnchor of the serving fields is null
\* and otherwise names the serving of that anchor.
C15_BasisLabelMatchesBasis ==
  /\ (probe # Null /\ probe.kind = "anchor" /\ probeOut # Null) =>
       /\ SaysBasis(probeOut.listLabel, probeOut.foodAnchor)
       /\ SaysBasis(probeOut.entryLabel, probeOut.foodAnchor)
  /\ (/\ probe # Null
      /\ probe.kind \in {"usda", "off", "saved"}
      /\ probeOut # Null
      /\ probeOut.draft # Null) =>
       SaysBasis(probeOut.summaryLabel,
                 resolveServingAnchor(
                   [servingSizeGrams |-> probeOut.draft.servingSizeGrams,
                    servingSize |-> probeOut.draft.servingSize,
                    servingSizeUnit |-> probeOut.draft.servingSizeUnit,
                    servingLabel |-> probeOut.draft.servingLabel]))

\* the stored entry has the servings and the three per-serving values of e
SameRecord(list, e) ==
  \E j \in 1..Len(list) :
    /\ list[j].id = e.id
    /\ list[j].servings = e.servings
    /\ list[j].caloriesPerServing = e.caloriesPerServing
    /\ list[j].carbsPerServing = e.carbsPerServing
    /\ list[j].proteinPerServing = e.proteinPerServing

\* C16: an entry whose food name no food of the collection bears opens for
\* edit without a message, in servings mode, with the stored servings and the
\* stored per-serving values; submitted as opened, it is stored with the same
\* servings and per-serving values.
C16_OrphanEntryEdit ==
  [][ \A i \in 1..Len(entries) :
        (\A k \in 1..Len(foodCache) : foodCache[k].name # entries[i].foodName) =>
          /\ (view = "dashboard" /\ view' = "entry" /\ form'.entryId = entries[i].id) =>
               /\ alertMsg' = "none"
               /\ ~form'.useGramsInput
               /\ form'.servings = OfCenti(entries[i].servings)
               /\ form'.perServing = [calories |-> entries[i].caloriesPerServing,
                                      carbs |-> entries[i].carbsPerServing,
                                      protein |-> entries[i].proteinPerServing]
          /\ (/\ Submit
              /\ form.entryId = entries[i].id
              /\ form = renderEntryForm(foodCache, entries, NoId, form.entryId)) =>
               /\ alertMsg' = "none"
               /\ view' = "dashboard"
               /\ SameRecord(entries', entries[i]) ]_vars

\* an entry of the deleted food "ap" was opened and submitted: the entry is
\* stored and the submit has written a new food of that name
C16_Witness ==
  /\ view = "dashboard"
  /\ submitted # Null
  /\ \E j \in 1..Len(entries) :
       entries[j].id = submitted.id /\ entries[j].foodName = Apple.name
  /\ \E k \in 1..Len(foodCache) :
       foodCache[k].name = Apple.name /\ foodCache[k].id >= FirstNewId
  /\ \A k \in 1..Len(foodCache) : foodCache[k].id # Apple.id

\* C17 as stated: "12.999" read with the floor 0 gives 13.00, which is shown
\* as "13": the value is the input rounded to two decimals and shown without
\* trailing zeros.
C17_RoundsToTwoDecimals ==
  (/\ probe # Null
   /\ probe.kind = "decimal"
   /\ probeOut # Null
   /\ probe.raw = <<"1", "2", ".", "9", "9", "9">>
   /\ probe.min = 0) =>
    /\ probeOut.value = 13000
    /\ probeOut.shown = <<"1", "3">>

\* C17: "12.999" read with the floor 0 gives 12.99, which is shown as
\* "12.99": the value is the input cut to two decimals, and what is shown has
\* no zero at the end of its decimals and no point at its end ("2.90" is
\* shown as "2.9", "2.00" as "2").
C17_CutsToTwoDecimals ==
  (probe # Null /\ probe.kind = "decimal" /\ probeOut # Null) =>
    LET shown == probeOut.shown
        Pointed == \E i \in 1..Len(shown) : shown[i] = "."
    IN /\ shown # <<>>
       /\ shown[Len(shown)] # "."
       /\ Pointed => shown[Len(shown)] # "0"
       /\ (probe.raw = <<"1", "2", ".", "9", "9", "9">> /\ probe.min = 0) =>
            probeOut.value = 12990 /\ shown = <<"1", "2", ".", "9", "9">>
       /\ (probe.raw = <<"2", ".", "9", "0">> /\ probe.min = 0) =>
            probeOut.value = 2900 /\ shown = <<"2", ".", "9">>
       /\ (probe.raw = <<"2", ".", "0", "0">> /\ probe.min = 0) =>
            probeOut.value = 2000 /\ shown = <<"2">>

\* "12.999" was read with the floor 0 and shown
C17_Witness ==
  /\ probe # Null
  /\ probe.kind = "decimal"
  /\ probeOut # Null
  /\ probe.raw = <<"1", "2", ".", "9", "9", "9">>
  /\ probe.min = 0
  /\ probeOut.value = 12990
  /\ probeOut.shown = <<"1", "2", ".", "9", "9">>

\* C18: for every text and every floor, a value read by parseDecimal2, shown
\* by formatNumberSmart and read again with the same floor is the same value.
C18_ParseFormatParse ==
  (probe # Null /\ probe.kind = "decimal" /\ probeOut # Null) =>
    probeOut.again = probeOut.value

RECURSIVE Reference(_, _, _, _, _)
\* the value, in hundredths, of the text raw from index i on, read from left
\* to right: whole is the number read before the first point, frac the digits
\* kept after it (at most two); places is 0 before the first point and then
\* one more than the digits kept; other characters and further points are
\* passed over
Reference(raw, i, whole, places, frac) ==
  IF i > Len(raw)
    THEN 100 * whole + (IF places = 2 THEN 10 * frac ELSE frac)
  ELSE IF IsDigit(raw[i])
    THEN (IF places = 0 THEN Reference(raw, i + 1, 10 * whole + DigitVal(raw[i]), 0, 0)
          ELSE IF places < 3
            THEN Reference(raw, i + 1, whole, places + 1, 10 * frac + DigitVal(raw[i]))
          ELSE Reference(raw, i + 1, whole, places, frac))
  ELSE IF raw[i] = "." /\ places = 0 THEN Reference(raw, i + 1, whole, 1, 0)
  ELSE Reference(raw, i + 1, whole, places, frac)

C21_SavedDraftNotRescaled ==
  (probe # Null /\ probe.kind = "saved" /\ probeOut # Null) =>
    LET food == probe.food
        draft == probeOut.draft
    IN /\ draft.caloriesPerServing = food.caloriesPerServing
       /\ draft.carbsPerServing = food.carbsPerServing
       /\ draft.proteinPerServing = food.proteinPerServing
       /\ draft.servingSize = food.servingSize
       /\ draft.servingSizeUnit = food.servingSizeUnit
       /\ draft.servingSizeGrams = food.servingSizeGrams
       /\ draft.servingLabel =
            CASE food.id = Apple.id -> <<"4", "5", " ", "g">>
              [] food.id = Tahini.id -> <<"3", "0", " ", "g">>
              [] food.id = Gout.id -> <<"2", "4", "0", " ", "m", "l">>
              [] OTHER -> NoLabel

\* the draft of the food whose serving is given by size and unit only
C21_Witness ==
  /\ probe # Null
  /\ probe.kind = "saved"
  /\ probeOut # Null
  /\ probe.food = Tahini
  /\ probeOut.draft.servingSize = 3000
  /\ probeOut.draft.servingSizeUnit = "G"
  /\ probeOut.draft.servingSizeGrams = NoNum
  /\ probeOut.draft.servingLabel = <<"3", "0", " ", "g">>

\* C22: while a user is signed in, every click, keydown, touchstart or scroll
\* restarts a full 30-minute countdown, so the pending timeout is due 30
\* minutes after the latest such event (or the sign-in); the timeout signs
\* the user out only when 30 minutes have passed since that event, and a user
\* idle for 30 minutes is signed out; at most one timeout is pending, and none
\* while no user is signed in.
C22_InactivitySignOut ==
  (probe # Null /\ probe.kind = "session") =>
    /\ Cardinality(probeOut.pending) <= 1
    /\ ~probeOut.user => probeOut.pending = {}
    /\ probeOut.user => \A t \in probeOut.pending : t.due = probeOut.lastEvent + InactivityLimit
    /\ probeOut.fired # Null => probeOut.fired.idle >= InactivityLimit
    /\ (probeOut.user /\ probeOut.signOut = "none") =>
         probeOut.now - probeOut.lastEvent <= InactivityLimit

\* C23: for a search text that is empty or only spaces sortFoodsForPicker
\* returns exactly the favorite foods, for any other text exactly the foods
\* whose name contains the trimmed text, whatever the case; in the result a
\* favorite comes before every food that is not one, among foods of the same
\* kind the one with the earlier match comes first, and at the same place the
\* one whose name is first in the alphabet; the array passed is as it was.
C23_PickerOrder ==
  (probe # Null /\ probe.kind = "picker" /\ probeOut # Null) =>
    LET key == CASE probe.term = <<"O">> -> <<"o">>
                 [] probe.term = <<"t", " ">> -> <<"t">>
                 [] probe.term = <<"m", "u", " ">> -> <<"m", "u">>
                 [] probe.term = <<" ">> -> <<>>
                 [] OTHER -> probe.term
        At(name, i) == /\ i + Len(key) <= Len(name)
                       /\ \A k \in 1..Len(key) : name[i + k] = key[k]
        Wanted(food) == IF key = <<>> THEN food.favorite
                        ELSE \E i \in 0..Len(food.name) : At(food.name, i)
        Pos(food) == CHOOSE i \in 0..Len(food.name) :
                       At(food.name, i) /\ \A j \in 0..(i - 1) : ~At(food.name, j)
        ByName == <<Apple.name, Gout.name, Oats.name, Roti.name, Soup.name, Tahini.name>>
        NameAt(food) == CHOOSE k \in 1..Len(ByName) : ByName[k] = food.name
        InOrder(a, b) ==
          \/ a.favorite /\ ~b.favorite
          \/ a.favorite = b.favorite /\ Pos(a) < Pos(b)
          \/ a.favorite = b.favorite /\ Pos(a) = Pos(b) /\ NameAt(a) < NameAt(b)
        result == probeOut.result
    IN /\ { result[k] : k \in 1..Len(result) }
            = { probe.foods[k] : k \in { n \in 1..Len(probe.foods) : Wanted(probe.foods[n]) } }
       /\ \A i, j \in 1..Len(result) : i < j => InOrder(result[i], result[j])
       /\ probeOut.foods = probe.foods

\* the cache Tahini, Gout, Oats, Apple searched for "a": Apple matches at the
\* start, Oats and Tahini at the second letter, Gout not at all
C23_Witness ==
  /\ probe # Null
  /\ probe.kind = "picker"
  /\ probeOut # Null
  /\ probe.foods = <<Tahini, Gout, Oats, Apple>>
  /\ probe.term = <<"a">>
  /\ probeOut.result = <<Apple, Oats, Tahini>>
  /\ probeOut.foods = <<Tahini, Gout, Oats, Apple>>

\* C24: every entry the entry form has written has servings of 0.01 or more.
C24_WrittenServingsAtLeastMinimum ==
  \A i \in 1..Len(entries) : entries[i].servings >= 1

\* C25: when the entry form was editing an entry and handed over to the food
\* form by "Edit food", the entry form that reopens after "Save food" or
\* "Back" is editing that entry still, so that its submit rewrites the entry
\* and adds none.
C25_EditSurvivesFoodForm ==
  [][(view = "food" /\ foodForm.editedEntry # NoId /\ view' = "entry")
       => form'.entryId = foodForm.editedEntry]_vars

\* C26: when two submit events reach one add-entry form, the second while
\* the writes of the first are awaited, and both calls have ended, one entry
\* has been added and at most one food of the entered name.
C26_OneEntryPerForm ==
  (/\ probe # Null
   /\ probe.kind = "submit"
   /\ Len(probeOut.calls) = 2
   /\ \A c \in 1..Len(probeOut.calls) : probeOut.calls[c].pc = "done") =>
    /\ Len(entries) = 1
    /\ Len(foodCache) <= Len(probe.cache) + 1

\* C27: when the scan modal was closed while a barcode lookup ran, the result
\* that arrives later is dropped: no draft is put into the food form, which
\* stays in edit mode.
C27_CancelledLookupDropped ==
  (probe # Null /\ probe.kind = "barcode" /\ probeOut.cancelled) =>
    /\ probeOut.applied = Null
    /\ probeOut.foodFormMode = "edit"

\* C28: once the scan modal is closed, or shows the manual-entry form, no
\* camera stream is live, no decoder runs and no scan timeout is pending,
\* however these actions fall between the steps of the camera's start.
C28_CameraReleased ==
  (probe # Null /\ probe.kind = "camera" /\ (~probeOut.overlay \/ probeOut.shown = "manual")) =>
    /\ probeOut.streams = {}
    /\ probeOut.decoders = {}
    /\ probeOut.timers = {}

\* C29: the submit of an edit gives the entry a fresh createdAt: in the day's
\* list, which is in createdAt order, the edited entry becomes the last and
\* the other entries keep their order among themselves.
C29_EditedEntryMovesLast ==
  [][(Submit /\ form.entryId # NoId /\ alertMsg' = "none") =>
       /\ Len(entries') = Len(entries)
       /\ entries'[Len(entries')].id = form.entryId
       /\ \A i, j \in 1..Len(entries) :
            (i < j /\ entries[i].id # form.entryId /\ entries[j].id # form.entryId) =>
              \E k, l \in 1..Len(entries') :
                k < l /\ entries'[k] = entries[i] /\ entries'[l] = entries[j]]_vars

\* the first of the day's three entries was edited and is now the last
C29_Witness ==
  /\ view = "dashboard"
  /\ submitted # Null
  /\ Len(entries) = 3
  /\ submitted.id = FirstNewId
  /\ entries[3].id = FirstNewId
  /\ entries[1].id = FirstNewId + 1
  /\ entries[2].id = FirstNewId + 2

====
